---------------------------- MODULE Spec2Model ----------------------------
(***************************************************************************)
(* Koha inventory counting application (kohasayim).                        *)
(*                                                                         *)
(* Model of the main React component App of src/unnamed/part_000: the      *)
(* barcode classifier processBarcode, the session ledger scannedItems with *)
(* its duplicate set processedBarcodesRef, the catalog kohaData /          *)
(* kohaDataMap, session persistence in localStorage and the summary        *)
(* aggregation summaryData.                                                *)
(*                                                                         *)
(* Strings are sequences of characters.  A character is a number: 0..9 is  *)
(* the decimal digit, NonDigit is any character that is neither a digit    *)
(* nor white space, Blank is a white-space character.                      *)
(***************************************************************************)
EXTENDS Integers, Sequences, FiniteSets, TLC

VARIABLES
    page,                 \* useState 'page'
    permissionChoiceMade, \* localStorage 'cameraPermissionChoiceMade'
    selectedLibrary,      \* useState: library code, <<>> is ''
    selectedLocation,     \* useState: location code, "" is all locations
    customLibraries,      \* useState + localStorage 'customLibraries': set of codes
    kohaData,             \* useState: rows of the uploaded catalog
    kohaDataMap,          \* useState: Map barkod -> row
    scannedItems,         \* useState: the ledger, most recent first
    processedBarcodes,    \* processedBarcodesRef.current: the seen set
    currentSessionName,   \* useState, "" is no session
    storedSessions,       \* localStorage koha_session_<name>: name -> <<>> or <<snapshot>>
    activeSessionName,    \* localStorage 'activeKohaSessionName', "" is absent
    isRestoringSession,   \* useState
    clock,                \* the millisecond clock read by new Date()
    lastResult,           \* what the last handler reported: the value returned by
                          \* processBarcode, the modal of a bulk run, a load error
    isBulkLoading,        \* useState
    bulkBarcodes,         \* processBarcodesInChunks: the list barcodes
    bulkIndex,            \* processBarcodesInChunks: index
    bulkTimer,            \* a setTimeout(processChunk, 0) is pending
    bulkClosureItems,     \* the scannedItems captured by the processBarcode closure
    bulkReader,           \* the file the FileReader of handleBulkUpload is reading
    bulkCalls,            \* the barcodes passed to processBarcode by this bulk run
    isCameraOpen,         \* useState: RobustBarcodeScanner is mounted
    throttleTimeout,      \* throttleTimeoutRef.current: the cooldown timer is pending
    scannedCodesThisSession, \* scannedCodesThisSessionRef.current
    scannerLog,           \* history: the mounts of the scanner, the calls of onScan
                          \* with their outcome and the firings of the cooldown
                          \* timer, in order
    warningModalIsOpen,   \* useState warningModal.isOpen, the scanner's isPaused
    barcodeInput,         \* useState: the text of the manual input
    manualInputDebounce,  \* the pending debounce timer: <<>> or <<its value>>
    manualCalls,          \* history: the texts the manual input passed to processBarcode
    workerKohaDataMap,       \* worker.js: kohaDataMap
    workerCombinedLibraries, \* worker.js: combinedLibraries, the codes in order
    workerProcessedBarcodes, \* worker.js: processedBarcodes
    workerPosted          \* worker.js: the messages posted by the last handler

vars == << page, permissionChoiceMade, selectedLibrary, selectedLocation,
           customLibraries, kohaData, kohaDataMap, scannedItems,
           processedBarcodes, currentSessionName, storedSessions,
           activeSessionName, isRestoringSession, clock, lastResult,
           isBulkLoading, bulkBarcodes, bulkIndex, bulkTimer, bulkClosureItems,
           bulkReader, bulkCalls,
           isCameraOpen, throttleTimeout, scannedCodesThisSession, scannerLog,
           warningModalIsOpen,
           barcodeInput, manualInputDebounce, manualCalls,
           workerKohaDataMap, workerCombinedLibraries, workerProcessedBarcodes,
           workerPosted >>

scannerVars == << isCameraOpen, throttleTimeout, scannedCodesThisSession, scannerLog,
                  warningModalIsOpen >>

inputVars == << barcodeInput, manualInputDebounce, manualCalls >>

workerVars == << workerKohaDataMap, workerCombinedLibraries, workerProcessedBarcodes,
                 workerPosted >>

componentVars == << scannerVars, inputVars, workerVars >>

bulkVars == << isBulkLoading, bulkBarcodes, bulkIndex, bulkTimer, bulkClosureItems,
               bulkReader, bulkCalls >>

-----------------------------------------------------------------------------
(* Bounds of the model *)

\* the clock stops scans and uploads once it has reached MaxClock
MaxClock == 2

\* the longest run of digits among the classified texts
MaxDigits == 13

\* the number of lines of the longest bulk file
MaxBulk == 501

\* the longest history of the scanner and of the manual input
MaxLog == 5

-----------------------------------------------------------------------------
(* Characters and strings *)

NonDigit == 10
Blank == 11

IsDigit(c) == c \in 0..9

\* String.prototype.trim
RECURSIVE TrimLeft(_)
TrimLeft(s) ==
    IF s = <<>> THEN <<>>
    ELSE IF Head(s) = Blank THEN TrimLeft(Tail(s)) ELSE s

RECURSIVE TrimRight(_)
TrimRight(s) ==
    IF s = <<>> THEN <<>>
    ELSE IF s[Len(s)] = Blank THEN TrimRight(SubSeq(s, 1, Len(s) - 1)) ELSE s

Trim(s) == TrimRight(TrimLeft(s))

\* s.replace(/[^0-9]/g, '')
StripNonDigits(s) == SelectSeq(s, IsDigit)

\* s.startsWith(p)
StartsWith(s, p) == Len(s) >= Len(p) /\ SubSeq(s, 1, Len(p)) = p

\* s.slice(0, n)
Slice0(s, n) == IF Len(s) <= n THEN s ELSE SubSeq(s, 1, n)

\* s.padStart(n, '0')
PadStart0(s, n) ==
    IF Len(s) >= n THEN s ELSE [i \in 1..(n - Len(s)) |-> 0] \o s

\* parseInt(s, 10) of a string of decimal digits
RECURSIVE ParseInt(_)
ParseInt(s) ==
    IF s = <<>> THEN 0 ELSE 10 * ParseInt(SubSeq(s, 1, Len(s) - 1)) + s[Len(s)]

\* String(n) of a non-negative integer
RECURSIVE IntToString(_)
IntToString(n) ==
    IF n < 10 THEN <<n>> ELSE IntToString(n \div 10) \o <<n % 10>>

\* String(parseInt(code, 10) + 1000)
LibraryPrefix(code) == IntToString(ParseInt(code) + 1000)

-----------------------------------------------------------------------------
(* Static tables *)

\* INITIAL_LIBRARIES: the codes, in table order
INITIAL_LIBRARIES == << <<1, 2>> >>

\* the library codes a user adds with "Yeni Ekle" in this model
CustomLibraryCodes == { <<8, 9, 9, 9>> }

\* display name of a library code
LibraryName(code) ==
    IF code = <<1, 2>> THEN "ADANA IL HALK KUTUPHANESI"
    ELSE IF code = <<8, 9, 9, 9>> THEN "CUSTOM LIBRARY 8999"
    ELSE IF code = <<9, 8, 9, 9, 0>> THEN "CUSTOM LIBRARY 98990"
    ELSE IF code = <<9, 1, 2, 0>> THEN "CUSTOM LIBRARY 9120"
    ELSE "CUSTOM LIBRARY"

\* the location codes offered by the location select ("" is all locations)
LocationCodes == { "", "YB" }

SessionNames == { "s1" }


-----------------------------------------------------------------------------
(* The catalog *)

\* a row of the uploaded sheet; barkod holds the text String(item.barkod)
Row(b, st, ln, lc, ol) ==
    [ hasBarkod |-> TRUE, barkod |-> b, status |-> st, loan |-> ln,
      loc |-> lc, onLoan |-> ol ]

HomeItem      == Row(<<1,0,1,2,0,0,0,1,2,3,4,5>>, "0", "0", "YB", "0")
WithdrawnItem == Row(<<1,0,1,2,0,0,0,0,0,0,5,5>>, "1", "0", "YB", "0")
ForeignItem   == Row(<<9,9,9,9,0,0,0,1,2,3,4,5>>, "0", "1", "CB", "1")
IsbnKeyItem   == Row(<<9,7,8,0,1,3,4,1,9,0,4,4>>, "0", "0", "CB", "0")
NoColumnRow   == [ Row(<<>>, "0", "0", "", "0") EXCEPT !.hasBarkod = FALSE ]

\* the sheets a user uploads in this model (the result of sheet_to_json)
SampleCatalog == << HomeItem, WithdrawnItem, ForeignItem, IsbnKeyItem >>

CatalogFiles ==
    { SampleCatalog,
      << >>,
      << NoColumnRow >> }

\* new Map(json.map(item => [String(item.barkod), item])): the last row of a key wins
BuildMap(rows) ==
    [ k \in { rows[i].barkod : i \in DOMAIN rows } |->
        rows[ CHOOSE i \in DOMAIN rows :
                /\ rows[i].barkod = k
                /\ \A j \in DOMAIN rows : rows[j].barkod = k => j <= i ] ]

\* map.get(key): <<>> is undefined, <<row>> is the row
MapGet(map, key) == IF key \in DOMAIN map THEN << map[key] >> ELSE << >>

-----------------------------------------------------------------------------
(* Warnings and scan events *)

\* an entry of WARNING_DEFINITIONS; libraryName is set on wrongLibrary only
Warning(id) == [ id |-> id, libraryName |-> "" ]
WrongLibraryWarning(name) == [ id |-> "wrongLibrary", libraryName |-> name ]

\* a scan result: data is <<>> (null or undefined) or <<row>>
ScanResult(b, valid, ws, d, ts) ==
    [ barcode |-> b, isValid |-> valid, warnings |-> ws, data |-> d, timestamp |-> ts ]

WarningIds(item) == { item.warnings[i].id : i \in DOMAIN item.warnings }

\* array.filter
Filter(items, Keep(_)) == SelectSeq(items, Keep)

\* array.find: <<>> when nothing matches, otherwise <<first match>>
Find(items, Test(_)) ==
    LET hits == SelectSeq(items, Test) IN IF hits = <<>> THEN <<>> ELSE << Head(hits) >>

BarcodesOf(items) == { items[i].barcode : i \in DOMAIN items }

-----------------------------------------------------------------------------
(* The library directory *)

\* the position of code among the integer-like keys of the customLibraries object:
\* Object.entries lists them in ascending numeric order
RECURSIVE SortCodes(_)
SortCodes(codes) ==
    IF codes = {} THEN << >>
    ELSE LET least == CHOOSE c \in codes : \A d \in codes : ParseInt(c) <= ParseInt(d)
         IN  << least >> \o SortCodes(codes \ { least })

\* libraryOptions / combinedLibraries: INITIAL_LIBRARIES first, then the custom
\* entries; a custom entry with an initial code keeps the initial position
libraryOptions(custom) ==
    INITIAL_LIBRARIES \o
    SortCodes({ c \in custom : \A i \in DOMAIN INITIAL_LIBRARIES : INITIAL_LIBRARIES[i] # c })

-----------------------------------------------------------------------------
(* processBarcode *)

\* isIsbn without the removal of the non-digit characters
isIsbnOfRawText(barcode) ==
    LET sum == LET RECURSIVE Acc(_)
                   Acc(i) == IF i = 0 THEN 0
                             ELSE Acc(i - 1) +
                                  (IF (i - 1) % 2 = 0 THEN barcode[i] * 1 ELSE barcode[i] * 3)
               IN  Acc(12)
    IN  /\ Len(barcode) = 13
        /\ \A i \in DOMAIN barcode : IsDigit(barcode[i])
        /\ (StartsWith(barcode, <<9, 7, 8>>) \/ StartsWith(barcode, <<9, 7, 9>>))
        /\ (10 - (sum % 10)) % 10 = barcode[13]

\* isIsbn
isIsbn(barcode) ==
    LET code == StripNonDigits(barcode)
        sum  == LET RECURSIVE Acc(_)
                    Acc(i) == IF i = 0 THEN 0
                              ELSE Acc(i - 1) +
                                   (IF (i - 1) % 2 = 0 THEN code[i] * 1 ELSE code[i] * 3)
                IN  Acc(12)
    IN  /\ Len(code) = 13
        /\ (StartsWith(code, <<9, 7, 8>>) \/ StartsWith(code, <<9, 7, 9>>))
        /\ (10 - (sum % 10)) % 10 = code[13]

\* expectedPrefix
expectedPrefix(library) == LibraryPrefix(library)

\* originalBarcode: the digits of the trimmed input
originalBarcode(barcode) == StripNonDigits(Trim(barcode))

\* wasAutoCompleted without the test normalizedBarcode.length > 0
wasAutoCompletedOfAnyShortText(barcode) == Len(originalBarcode(barcode)) < 12

\* wasAutoCompleted
wasAutoCompleted(barcode) ==
    LET truncated == IF Len(originalBarcode(barcode)) >= 13
                     THEN Slice0(originalBarcode(barcode), 12)
                     ELSE originalBarcode(barcode)
    IN  Len(truncated) < 12 /\ Len(truncated) > 0

\* normalizedBarcode with the auto-completed identifier cut to 12 characters
normalizedBarcodeOf12(barcode, library) ==
    LET original  == originalBarcode(barcode)
        truncated == IF Len(original) >= 13 THEN Slice0(original, 12) ELSE original
    IN  IF Len(truncated) < 12 /\ Len(truncated) > 0
        THEN Slice0(expectedPrefix(library) \o
                    PadStart0(original, 12 - Len(expectedPrefix(library))), 12)
        ELSE truncated

\* normalizedBarcode: truncation to 12 digits, or auto-completion with the prefix
normalizedBarcode(barcode, library) ==
    LET original  == originalBarcode(barcode)
        truncated == IF Len(original) >= 13 THEN Slice0(original, 12) ELSE original
    IN  IF Len(truncated) < 12 /\ Len(truncated) > 0
        THEN expectedPrefix(library) \o
             PadStart0(original, 12 - Len(expectedPrefix(library)))
        ELSE truncated

\* the structural check's loop over INITIAL_LIBRARIES alone
structuralWarningOfInitialLibraries(normalized, custom) ==
    LET libs    == libraryOptions({})
        matches == { i \in DOMAIN libs : StartsWith(normalized, LibraryPrefix(libs[i])) }
    IN  IF matches = {}
        THEN Warning("invalidStructure")
        ELSE WrongLibraryWarning(
                 LibraryName(libs[CHOOSE i \in matches : \A j \in matches : i <= j]))

\* the structural check's loop without the break: the last match wins
structuralWarningOfLastMatch(normalized, custom) ==
    LET libs    == libraryOptions(custom)
        matches == { i \in DOMAIN libs : StartsWith(normalized, LibraryPrefix(libs[i])) }
    IN  IF matches = {}
        THEN Warning("invalidStructure")
        ELSE WrongLibraryWarning(
                 LibraryName(libs[CHOOSE i \in matches : \A j \in matches : i >= j]))

\* the structural check's loop over combinedLibraries.entries()
structuralWarning(normalized, custom) ==
    LET libs    == libraryOptions(custom)
        matches == { i \in DOMAIN libs : StartsWith(normalized, LibraryPrefix(libs[i])) }
    IN  IF matches = {}
        THEN Warning("invalidStructure")
        ELSE WrongLibraryWarning(
                 LibraryName(libs[CHOOSE i \in matches : \A j \in matches : i <= j]))

\* the catalog checks stopping at the first warning that applies
catalogWarningsFirstOnly(row, location) ==
    IF location # "" /\ row.loc # location THEN << Warning("locationMismatch") >>
    ELSE IF row.loan \notin { "0", "2" } THEN << Warning("notLoanable") >>
    ELSE IF row.status # "0" THEN << Warning("notInCollection") >>
    ELSE IF row.onLoan = "1" THEN << Warning("onLoan") >>
    ELSE << >>

\* the catalog checks on a found row, in the order of the pushes
catalogWarnings(row, location) ==
    (IF location # "" /\ row.loc # location THEN << Warning("locationMismatch") >> ELSE << >>)
    \o (IF row.loan \notin { "0", "2" } THEN << Warning("notLoanable") >> ELSE << >>)
    \o (IF row.status # "0" THEN << Warning("notInCollection") >> ELSE << >>)
    \o (IF row.onLoan = "1" THEN << Warning("onLoan") >> ELSE << >>)

\* the duplicate check: processedBarcodesRef.current.has(normalizedBarcode)
isDuplicate(normalized, seen) == normalized \in seen

\* a structural check that lets the identifiers of the catalog pass
failsStructuralCheckUnlessCatalogued(normalized, prefix) ==
    /\ Len(normalized) = 12
    /\ ~StartsWith(normalized, prefix)
    /\ normalized \notin DOMAIN kohaDataMap

\* the structural check's condition
failsStructuralCheck(normalized, prefix) ==
    Len(normalized) = 12 /\ ~StartsWith(normalized, prefix)

\* the barcode stored in the event of a structurally rejected scan
structuralEventBarcode(original, normalized) == original

\* setScannedItems(prev => [...prev, scanResult])
appendLast(scanResult, items) == items \o << scanResult >>

\* setScannedItems(prev => [scanResult, ...prev])
prepend(scanResult, items) == << scanResult >> \o items

\* the row of the newest event of the closure, whatever its barcode
existingItemDataOfAnyEvent(closureItems, normalized, itemData) ==
    IF closureItems # << >> /\ closureItems[1].data # << >>
    THEN closureItems[1].data ELSE itemData

\* scannedItems.find(item => item.barcode === normalizedBarcode)?.data
\*   || kohaDataMap.get(normalizedBarcode)
existingItemData(closureItems, normalized, itemData) ==
    LET Same(item) == item.barcode = normalized
        existing   == Find(closureItems, Same)
    IN  IF existing # << >> /\ existing[1].data # << >>
        THEN existing[1].data ELSE itemData

\* if (!isBulk): the sound and the warning modal of a call
showsModal(isBulk) == ~isBulk

\* processBarcode(barcode, isBulk) called with the ledger items and the seen set
\* seen; closureItems is the scannedItems value captured by the useCallback
\* closure, ts the value of new Date().  The result holds the returned outcome
\* and warnings, the ledger and seen set after the call, and whether the call
\* opened the warning modal.
processBarcode(barcode, isBulk, items, seen, closureItems, ts) ==
    LET rawBarcode == Trim(barcode)
        original   == originalBarcode(barcode)
        normalized == normalizedBarcode(barcode, selectedLibrary)
        prefix     == expectedPrefix(selectedLibrary)
        itemData   == MapGet(kohaDataMap, normalized)
        warnings   ==
            IF itemData # << >>
            THEN catalogWarnings(itemData[1], selectedLocation)
            ELSE IF wasAutoCompleted(barcode)
                 THEN << Warning("autoCompletedNotFound") >>
                 ELSE << Warning("deleted") >>
    IN  IF rawBarcode = << >> \/ selectedLibrary = << >>
        THEN [ outcome |-> "ignored", warnings |-> << >>, items |-> items, seen |-> seen,
               modal |-> FALSE ]
        ELSE IF isIsbn(rawBarcode)
        THEN [ outcome |-> "isbn", warnings |-> << >>, items |-> items, seen |-> seen,
               modal |-> showsModal(isBulk) ]
        ELSE IF isDuplicate(normalized, seen)
        THEN [ outcome  |-> "error",
               warnings |-> << Warning("duplicate") >>,
               items    |-> prepend(ScanResult(normalized, FALSE, << Warning("duplicate") >>,
                                          existingItemData(closureItems, normalized,
                                                           itemData), ts), items),
               seen     |-> seen,
               modal    |-> showsModal(isBulk) ]
        ELSE IF failsStructuralCheck(normalized, prefix)
        THEN [ outcome  |-> "error",
               warnings |-> << structuralWarning(normalized, customLibraries) >>,
               items    |-> prepend(ScanResult(structuralEventBarcode(original, normalized),
                                          FALSE,
                                          << structuralWarning(normalized, customLibraries) >>,
                                          itemData, ts), items),
               seen     |-> seen \cup { normalized },
               modal    |-> showsModal(isBulk) ]
        ELSE [ outcome  |-> IF warnings = << >> THEN "success" ELSE "error",
               warnings |-> warnings,
               items    |-> prepend(ScanResult(normalized, warnings = << >>, warnings,
                                          itemData, ts), items),
               seen     |-> seen \cup { normalized },
               modal    |-> warnings # << >> /\ showsModal(isBulk) ]

-----------------------------------------------------------------------------
(* summaryData *)

\* item['materyalin_yeri_kodu'] || 'Bilinmeyen'
locationOf(row) == IF row.loc = "" THEN "Bilinmeyen" ELSE row.loc

\* every row of the catalog, whatever its status
allKohaData(rows) == rows

\* activeKohaData: the rows in collection
activeKohaData(rows) ==
    LET Active(row) == row.status = "0" IN Filter(rows, Active)

\* activeScannedItems: the events whose row is in collection
activeScannedItems(items) ==
    LET Active(item) == item.data # << >> /\ item.data[1].status = "0"
    IN  Filter(items, Active)

\* uniqueActiveScannedItems: new Map(items.map(item => [item.barcode, item])),
\* where the last event of a barcode in the array wins
uniqueActiveScannedItems(items) ==
    LET active == activeScannedItems(items)
    IN  [ b \in BarcodesOf(active) |->
            active[ CHOOSE i \in DOMAIN active :
                      /\ active[i].barcode = b
                      /\ \A j \in DOMAIN active : active[j].barcode = b => j <= i ] ]

\* the barcodes counted as missing: activeKohaBarcodes without activeScannedBarcodes
notScannedBarcodes(items, rows) ==
    { b \in { activeKohaData(rows)[i].barkod : i \in DOMAIN activeKohaData(rows) } :
        b \notin DOMAIN uniqueActiveScannedItems(items) }

\* the generator of the report 'missing': the rows in collection whose barkod
\* is not the barcode of an event without the duplicate warning
missingItems(items, rows) ==
    LET NotDuplicate(item) == "duplicate" \notin WarningIds(item)
        scannedBarcodes    == BarcodesOf(Filter(items, NotDuplicate))
        Missing(row)       == row.status = "0" /\ row.barkod \notin scannedBarcodes
    IN  Filter(rows, Missing)

\* locationStatus: per location the counters Gecerli, Uyarili and Eksik
locationStatus(items, rows) ==
    LET active == activeKohaData(rows)
        unique == uniqueActiveScannedItems(items)
        locs   == { locationOf(active[i]) : i \in DOMAIN active }
                  \cup { locationOf(unique[b].data[1]) : b \in DOMAIN unique }
    IN  [ loc \in locs |->
            [ Gecerli |-> Cardinality({ b \in DOMAIN unique :
                              locationOf(unique[b].data[1]) = loc /\ unique[b].isValid }),
              Uyarili |-> Cardinality({ b \in DOMAIN unique :
                              locationOf(unique[b].data[1]) = loc /\ ~unique[b].isValid }),
              Eksik   |-> Cardinality({ i \in DOMAIN active :
                              /\ locationOf(active[i]) = loc
                              /\ active[i].barkod \notin DOMAIN unique }) ] ]

\* scanSpeed: a number, or the text of the infinity sign (kind infinity); timestamps are in
\* milliseconds and Math.round rounds a positive quotient half up
scanSpeed(items) ==
    IF Len(items) > 1
    THEN LET firstScanTime == items[Len(items)].timestamp
             lastScanTime  == items[1].timestamp
             durationMs    == lastScanTime - firstScanTime
         IN  IF durationMs > 0
             THEN [ kind  |-> "number",
                    value |-> (2 * Len(items) * (1000 * 60) + durationMs)
                                  \div (2 * durationMs) ]
             ELSE [ kind |-> "infinity", value |-> 0 ]
    ELSE [ kind |-> "number", value |-> 0 ]

\* summaryData that looks at the ledger only before it gives up
noScans(items, rows) == items = << >>

\* summaryData: scannedItems.length === 0 && kohaData.length === 0, return null
noData(items, rows) == items = << >> /\ rows = << >>

\* summaryData of a ledger and a catalog; isNull is the result null
summaryData(items, rows) ==
    LET unique == uniqueActiveScannedItems(items)
        valid  == Cardinality({ b \in DOMAIN unique : unique[b].isValid })
    IN  [ isNull          |-> noData(items, rows),
          totalScanned    |-> Len(items),
          valid           |-> valid,
          invalid         |-> Cardinality(DOMAIN unique) - valid,
          notScannedCount |-> Cardinality(notScannedBarcodes(items, rows)),
          scanSpeed       |-> scanSpeed(items),
          locationStatus  |-> locationStatus(items, rows) ]

-----------------------------------------------------------------------------
(* Inputs of the model *)

\* the texts that reach processBarcode from the camera and the manual input
\* in the model of the whole application
Barcodes ==
    { <<1,0,1,2,0,0,0,1,2,3,4,5>>,           \* 12 digits, own prefix, in the catalog
      <<9,9,9,9,0,0,0,1,2,3,4,5>>,           \* 12 digits, foreign prefix, in the catalog
      <<9,9,9,9,0,0,0,1,2,3,4,5,1>>,         \* 13 digits, foreign prefix, no ISBN
      <<9,7,8,0,1,3,4,1,9,0,4,4,0>>,         \* a valid ISBN-13
      <<5,5>>,                               \* 2 digits
      <<Blank>> }                            \* white space only

\* the first n digits of 1012345678901234...
DigitRun(n) == [ i \in 1..n |-> IF i <= 4 THEN <<1,0,1,2>>[i] ELSE (i - 2) % 10 ]

\* the texts classified in the model of the classifier alone
ClassifierBarcodes ==
    Barcodes
    \cup { <<9,9,9,9,8,8,8,8,7,7,7,7>>,           \* 12 digits, foreign prefix
           <<9,7,8,NonDigit,0,1,3,4,1,9,0,4,4,0>>, \* the ISBN with a hyphen
           <<9,7,8,0,1,3,4,1,9,0,4,4,1>>,         \* 978 and a wrong check digit
           <<Blank,1,0,1,2,NonDigit,0,0,0,1,2,3,4,5>>,
           <<NonDigit>> }                         \* no digit at all
    \cup { DigitRun(n) : n \in (MaxDigits - 5)..MaxDigits }

\* the lines of the bulk files repeat this pattern: a barcode of the catalog,
\* a blank line, an ISBN, 13 digits with a foreign prefix, two digits
BulkPattern ==
    << <<1,0,1,2,0,0,0,1,2,3,4,5>>,
       <<Blank>>,
       <<9,7,8,0,1,3,4,1,9,0,4,4,0>>,
       <<9,9,9,9,0,0,0,1,2,3,4,5,1>>,
       <<5,5>> >>

\* the text file of n lines
BulkFile(n) == [ i \in 1..n |-> BulkPattern[((i - 1) % Len(BulkPattern)) + 1] ]

\* the barcode lists of the on-loan files a user uploads in this model
OnLoanFiles ==
    { << <<1,0,1,2,0,0,0,1,2,3,4,5>> >>,
      << <<9,9,9,9,0,0,0,1,2,3,4,5>>, <<Blank,1,0,1,2,0,0,0,1,2,3,4,5>> >> }

-----------------------------------------------------------------------------
(* Session persistence *)

\* the object written by the auto-save effect
Snapshot(name, library, location, items) ==
    [ name |-> name, library |-> library, location |-> location, items |-> items ]

\* the auto-save effect: runs after every render in which the session name, the
\* scope or the ledger changed, and writes nothing when no session is current
AutoSave(stored, name, library, location, items) ==
    IF name = "" THEN stored
    ELSE [ stored EXCEPT ![name] = << Snapshot(name, library, location, items) >> ]

AutoSaveActive(active, name) == IF name = "" THEN active ELSE name

\* the seen set rebuilt by loadSession
loadedBarcodes(items) == { items[i].barcode : i \in DOMAIN items }

-----------------------------------------------------------------------------
(* Initial state: a first visit, nothing in localStorage *)

NoResult == [ outcome |-> "none", warnings |-> << >> ]

\* what a handler other than the bulk upload does to the bulk run: a running
\* one is left alone; the list, the closure and the record of the calls of a
\* finished one are released
BulkReleased ==
    IF isBulkLoading
    THEN UNCHANGED bulkVars
    ELSE /\ isBulkLoading' = FALSE
         /\ bulkBarcodes' = << >>
         /\ bulkIndex' = 0
         /\ bulkTimer' = FALSE
         /\ bulkClosureItems' = << >>
         /\ bulkReader' = << >>
         /\ bulkCalls' = << >>

\* no bulk run: isBulkLoading false, no list, no timer
BulkIdle ==
    /\ isBulkLoading = FALSE
    /\ bulkBarcodes = << >>
    /\ bulkIndex = 0
    /\ bulkTimer = FALSE
    /\ bulkClosureItems = << >>
    /\ bulkReader = << >>
    /\ bulkCalls = << >>

\* the camera closed, the manual input empty, the worker as loaded
ComponentsIdle ==
    /\ isCameraOpen = FALSE
    /\ throttleTimeout = FALSE
    /\ scannedCodesThisSession = {}
    /\ scannerLog = << >>
    /\ warningModalIsOpen = FALSE
    /\ barcodeInput = << >>
    /\ manualInputDebounce = << >>
    /\ manualCalls = << >>
    /\ workerKohaDataMap = BuildMap(<< >>)
    /\ workerCombinedLibraries = << >>
    /\ workerProcessedBarcodes = {}
    /\ workerPosted = << >>

Init ==
    /\ page = "permission"
    /\ permissionChoiceMade = FALSE
    /\ selectedLibrary = << >>
    /\ selectedLocation = ""
    /\ customLibraries = {}
    /\ kohaData = << >>
    /\ kohaDataMap = BuildMap(<< >>)
    /\ scannedItems = << >>
    /\ processedBarcodes = {}
    /\ currentSessionName = ""
    /\ storedSessions = [ n \in SessionNames |-> << >> ]
    /\ activeSessionName = ""
    /\ isRestoringSession = FALSE
    /\ clock = 0
    /\ lastResult = NoResult
    /\ BulkIdle
    /\ ComponentsIdle

\* the auto-save effect applied to the state an action leaves
StorageAfter ==
    /\ storedSessions' = AutoSave(storedSessions, currentSessionName', selectedLibrary',
                                  selectedLocation', scannedItems')
    /\ activeSessionName' = AutoSaveActive(activeSessionName, currentSessionName')

-----------------------------------------------------------------------------
(* Actions *)

\* PermissionScreen.handleDecision and handlePermissionDecision
PermissionDecision ==
    /\ UNCHANGED componentVars
    /\ BulkReleased
    /\ lastResult' = NoResult
    /\ page = "permission"
    /\ page' = "start"
    /\ permissionChoiceMade' = TRUE
    /\ UNCHANGED << selectedLibrary, selectedLocation, customLibraries, kohaData,
                    kohaDataMap, scannedItems, processedBarcodes, currentSessionName,
                    storedSessions, activeSessionName, isRestoringSession, clock >>

\* the navigation the Sidebar and the page buttons allow
CanNavigate(target) ==
    \/ target = "start"
    \/ target = "pre-reports" /\ currentSessionName # "" /\ kohaData # << >>
    \/ target = "scan" /\ selectedLibrary # << >> /\ kohaData # << >>
    \/ target = "scan" /\ page = "pre-reports"
    \/ target = "update-on-loan" /\ page = "scan" /\ scannedItems # << >>
    \/ target = "summary" /\ selectedLibrary # << >> /\ kohaData # << >>
                          /\ scannedItems # << >>
    \/ target = "summary" /\ page = "update-on-loan"

Navigate(target) ==
    /\ UNCHANGED componentVars
    /\ BulkReleased
    /\ lastResult' = NoResult
    /\ target # page
    /\ CanNavigate(target)
    /\ page' = target
    /\ UNCHANGED << permissionChoiceMade, selectedLibrary, selectedLocation,
                    customLibraries, kohaData, kohaDataMap, scannedItems,
                    processedBarcodes, currentSessionName, storedSessions,
                    activeSessionName, isRestoringSession, clock >>

\* the library select of the start screen: setSelectedLibrary
SelectLibrary(code) ==
    /\ UNCHANGED componentVars
    /\ BulkReleased
    /\ lastResult' = NoResult
    /\ page = "start"
    /\ code # selectedLibrary
    /\ \/ code = << >>
       \/ \E i \in DOMAIN libraryOptions(customLibraries) :
              libraryOptions(customLibraries)[i] = code
    /\ selectedLibrary' = code
    /\ UNCHANGED << page, permissionChoiceMade, selectedLocation, customLibraries,
                    kohaData, kohaDataMap, scannedItems, processedBarcodes,
                    currentSessionName, isRestoringSession, clock >>
    /\ StorageAfter

\* the location select of the start screen: setSelectedLocation
SelectLocation(code) ==
    /\ UNCHANGED componentVars
    /\ BulkReleased
    /\ lastResult' = NoResult
    /\ page = "start"
    /\ code # selectedLocation
    /\ selectedLocation' = code
    /\ UNCHANGED << page, permissionChoiceMade, selectedLibrary, customLibraries,
                    kohaData, kohaDataMap, scannedItems, processedBarcodes,
                    currentSessionName, isRestoringSession, clock >>
    /\ StorageAfter

\* handleAddCustomData('library', code, name)
AddCustomLibrary(code) ==
    /\ UNCHANGED componentVars
    /\ BulkReleased
    /\ lastResult' = NoResult
    /\ page = "start"
    /\ customLibraries' = customLibraries \cup { code }
    /\ selectedLibrary' = code
    /\ UNCHANGED << page, permissionChoiceMade, selectedLocation, kohaData, kohaDataMap,
                    scannedItems, processedBarcodes, currentSessionName,
                    isRestoringSession, clock >>
    /\ StorageAfter

\* handleExcelUpload without the check of the rows
uploadNeverFails(json) == FALSE

\* the error message set by the catch of handleExcelUpload
UploadError == [ outcome |-> "uploadError", warnings |-> << >> ]

\* the check of handleExcelUpload that throws
uploadFails(json) == json = << >> \/ ~json[1].hasBarkod

\* handleExcelUpload: reader.onload
ExcelUpload(json) ==
    /\ UNCHANGED componentVars
    /\ BulkReleased
    /\ lastResult' = IF uploadFails(json) THEN UploadError ELSE NoResult
    /\ page = "start"
    /\ IF uploadFails(json)
       THEN UNCHANGED << kohaData, kohaDataMap, page, isRestoringSession >>
       ELSE /\ kohaData' = json
            /\ kohaDataMap' = BuildMap(json)
            /\ page' = IF isRestoringSession THEN "scan" ELSE page
            /\ isRestoringSession' = FALSE
    /\ UNCHANGED << permissionChoiceMade, selectedLibrary, selectedLocation,
                    customLibraries, scannedItems, processedBarcodes, currentSessionName,
                    storedSessions, activeSessionName, clock >>

\* startNewSession
StartNewSession(name) ==
    /\ UNCHANGED componentVars
    /\ BulkReleased
    /\ lastResult' = NoResult
    /\ page = "start"
    /\ selectedLibrary # << >>
    /\ kohaData # << >>
    /\ storedSessions[name] = << >>
    /\ currentSessionName' = name
    /\ scannedItems' = << >>
    /\ processedBarcodes' = {}
    /\ page' = "pre-reports"
    /\ UNCHANGED << permissionChoiceMade, selectedLibrary, selectedLocation,
                    customLibraries, kohaData, kohaDataMap, isRestoringSession, clock >>
    /\ StorageAfter

\* the state loadSession sets from a stored snapshot
LoadedFrom(session) ==
    /\ currentSessionName' = session.name
    /\ selectedLibrary' = session.library
    /\ selectedLocation' = session.location
    /\ scannedItems' = session.items
    /\ processedBarcodes' = loadedBarcodes(session.items)
    /\ kohaData' = << >>
    /\ kohaDataMap' = BuildMap(<< >>)
    /\ page' = "start"
    /\ isRestoringSession' = TRUE

\* loadSession, from the list of stored sessions of the start screen
LoadSession(name) ==
    /\ UNCHANGED componentVars
    /\ BulkReleased
    /\ lastResult' = NoResult
    /\ page = "start"
    /\ storedSessions[name] # << >>
    /\ LoadedFrom(storedSessions[name][1])
    /\ UNCHANGED << permissionChoiceMade, customLibraries, clock >>
    /\ StorageAfter

\* deleteSession, confirmed
DeleteSession(name) ==
    /\ UNCHANGED componentVars
    /\ BulkReleased
    /\ lastResult' = NoResult
    /\ page = "start"
    /\ storedSessions[name] # << >>
    /\ storedSessions' = [ storedSessions EXCEPT ![name] = << >> ]
    /\ activeSessionName' = IF activeSessionName = name THEN "" ELSE activeSessionName
    /\ IF activeSessionName = name /\ currentSessionName = name
       THEN /\ currentSessionName' = ""
            /\ selectedLibrary' = << >>
            /\ selectedLocation' = ""
            /\ scannedItems' = << >>
            /\ kohaData' = << >>
            /\ kohaDataMap' = BuildMap(<< >>)
            /\ processedBarcodes' = {}
            /\ page' = "start"
       ELSE UNCHANGED << currentSessionName, selectedLibrary, selectedLocation,
                         scannedItems, kohaData, kohaDataMap, processedBarcodes, page >>
    /\ UNCHANGED << permissionChoiceMade, customLibraries, isRestoringSession, clock >>

\* handleManualEntry / handleCameraScan: processBarcode(barcode)
Scan(barcode) ==
    /\ UNCHANGED componentVars
    /\ BulkReleased
    /\ page = "scan"
    /\ clock < MaxClock
    /\ LET r == processBarcode(barcode, FALSE, scannedItems, processedBarcodes,
                               scannedItems, clock + 1)
       IN  /\ scannedItems' = r.items
           /\ processedBarcodes' = r.seen
           /\ lastResult' = [ outcome |-> r.outcome, warnings |-> r.warnings ]
           /\ clock' = IF r.items = scannedItems THEN clock ELSE clock + 1
    /\ UNCHANGED << page, permissionChoiceMade, selectedLibrary, selectedLocation,
                    customLibraries, kohaData, kohaDataMap, currentSessionName,
                    isRestoringSession >>
    /\ StorageAfter

\* whether the deleted event was the only one with its barcode
isLastInstanceOfBarcode(items, barcodeToDelete) ==
    LET Same(item) == item.barcode = barcodeToDelete
    IN  Len(Filter(items, Same)) = 1

\* handleDeleteItem(timestampToDelete), confirmed: the ledger and the seen set after it
deleteItem(items, seen, timestampToDelete) ==
    LET Hit(item)  == item.timestamp = timestampToDelete
        Keep(item) == item.timestamp # timestampToDelete
        itemToDelete == Find(items, Hit)
    IN  IF itemToDelete = << >>
        THEN [ items |-> items, seen |-> seen ]
        ELSE [ items |-> Filter(items, Keep),
               seen  |-> IF isLastInstanceOfBarcode(items, itemToDelete[1].barcode)
                         THEN seen \ { itemToDelete[1].barcode }
                         ELSE seen ]

DeleteItem(timestampToDelete) ==
    /\ UNCHANGED componentVars
    /\ BulkReleased
    /\ lastResult' = NoResult
    /\ page = "scan"
    /\ \E i \in DOMAIN scannedItems : scannedItems[i].timestamp = timestampToDelete
    /\ LET r == deleteItem(scannedItems, processedBarcodes, timestampToDelete)
       IN  /\ scannedItems' = r.items
           /\ processedBarcodes' = r.seen
    /\ UNCHANGED << page, permissionChoiceMade, selectedLibrary, selectedLocation,
                    customLibraries, kohaData, kohaDataMap, currentSessionName,
                    isRestoringSession, clock >>
    /\ StorageAfter

\* handleClearAllScans, confirmed
ClearAllScans ==
    /\ UNCHANGED componentVars
    /\ BulkReleased
    /\ lastResult' = NoResult
    /\ page = "scan"
    /\ scannedItems # << >>
    /\ scannedItems' = << >>
    /\ processedBarcodes' = {}
    /\ UNCHANGED << page, permissionChoiceMade, selectedLibrary, selectedLocation,
                    customLibraries, kohaData, kohaDataMap, currentSessionName,
                    isRestoringSession, clock >>
    /\ StorageAfter

\* new Set(barcodes.map(b => String(b).trim().replace(/[^0-9]/g, '')).filter(Boolean)),
\* in insertion order
RECURSIVE uploadedBarcodes(_)
uploadedBarcodes(barcodes) ==
    IF barcodes = << >> THEN << >>
    ELSE LET front == uploadedBarcodes(SubSeq(barcodes, 1, Len(barcodes) - 1))
             last  == StripNonDigits(Trim(barcodes[Len(barcodes)]))
         IN  IF last = << >> \/ \E i \in DOMAIN front : front[i] = last
             THEN front
             ELSE Append(front, last)

\* the warning every event of an on-loan upload carries
onLoanUploadWarnings == << Warning("onLoan") >>

\* handleOnLoanUpload: reader.onload.  The events are created within one
\* millisecond (sameMs) or in consecutive ones.
onLoanUpload(items, seen, barcodes, sameMs) ==
    LET uploaded == uploadedBarcodes(barcodes)
        newScanResults ==
            [ i \in DOMAIN uploaded |->
                ScanResult(uploaded[i], FALSE, onLoanUploadWarnings,
                           MapGet(kohaDataMap, uploaded[i]),
                           IF sameMs THEN clock + 1 ELSE clock + i) ]
        Other(item) == \A i \in DOMAIN uploaded : uploaded[i] # item.barcode
    IN  [ items |-> newScanResults \o Filter(items, Other),
          seen  |-> seen \cup { uploaded[i] : i \in DOMAIN uploaded },
          clock |-> IF sameMs THEN clock + 1 ELSE clock + Len(uploaded) ]

OnLoanUpload(barcodes, sameMs) ==
    /\ UNCHANGED componentVars
    /\ BulkReleased
    /\ lastResult' = NoResult
    /\ page = "update-on-loan"
    /\ LET r == onLoanUpload(scannedItems, processedBarcodes, barcodes, sameMs)
       IN  /\ r.clock <= MaxClock
           /\ scannedItems' = r.items
           /\ processedBarcodes' = r.seen
           /\ clock' = r.clock
    /\ page' = "summary"
    /\ UNCHANGED << permissionChoiceMade, selectedLibrary, selectedLocation,
                    customLibraries, kohaData, kohaDataMap, currentSessionName,
                    isRestoringSession >>
    /\ StorageAfter

\* chunkSize of processBarcodesInChunks
chunkSize == 200

\* the lines of a text file: split(/\r?\n/).filter(line => line.trim() !== '')
bulkLines(file) ==
    LET NotBlank(line) == Trim(line) # << >> IN SelectSeq(file, NotBlank)

\* processChunk without the chunks: the whole list in one pass
wholeList(index, length) == length

\* processChunk: end = Math.min(index + chunkSize, barcodes.length)
chunkEnd(index, length) ==
    IF index + chunkSize < length THEN index + chunkSize ELSE length

\* processChunk: one pass of the loop, processBarcode(barcodes[i], true), from
\* the ledger, the seen set and the clock of acc.  The return value of the
\* call is dropped; shown is the last result a call opened the modal for.
processChunkStep(barcode, ts, closureItems, acc) ==
    LET r == processBarcode(barcode, TRUE, acc.items, acc.seen, closureItems, ts)
    IN  [ items |-> r.items,
          seen  |-> r.seen,
          clock |-> IF r.items = acc.items THEN acc.clock ELSE ts,
          calls |-> Append(acc.calls, barcode),
          shown |-> IF r.modal
                    THEN [ outcome |-> r.outcome, warnings |-> r.warnings ]
                    ELSE acc.shown ]

\* processChunk: the loop for i from the position first to the position end,
\* in order: the passes of the first half of the range, then those of the
\* second half from the result of the first.  The calls of one chunk read the
\* same millisecond (sameMs) or consecutive ones.
RECURSIVE processChunkLoop(_, _, _, _, _, _)
processChunkLoop(barcodes, first, end, sameMs, closureItems, acc) ==
    IF first > end THEN acc
    ELSE IF first = end
    THEN processChunkStep(barcodes[first],
                          IF sameMs THEN clock + 1 ELSE acc.clock + 1,
                          closureItems, acc)
    ELSE LET middle == (first + end) \div 2
         IN  CHOOSE r \in { processChunkLoop(barcodes, middle + 1, end, sameMs,
                                             closureItems, left) :
                            left \in { processChunkLoop(barcodes, first, middle,
                                                        sameMs, closureItems, acc) } } :
                 TRUE

\* processChunk: one chunk of the list, then the timer for the next chunk or
\* the end of the bulk run
processChunk(barcodes, index, calls, closureItems, sameMs) ==
    LET end == chunkEnd(index, Len(barcodes))
        r   == processChunkLoop(barcodes, index + 1, end, sameMs, closureItems,
                   [ items |-> scannedItems, seen |-> processedBarcodes,
                     clock |-> clock, calls |-> calls, shown |-> NoResult ])
    IN  /\ scannedItems' = r.items
        /\ processedBarcodes' = r.seen
        /\ clock' = r.clock
        /\ bulkCalls' = r.calls
        /\ lastResult' = r.shown
        /\ bulkIndex' = end
        /\ bulkTimer' = (end < Len(barcodes))
        /\ isBulkLoading' = (end < Len(barcodes))

\* handleBulkUpload of a text file: the loader is shown and the FileReader
\* starts reading.  The FileUploader is disabled while isBulkLoading.
handleBulkUpload(file) ==
    /\ UNCHANGED componentVars
    /\ page = "scan"
    /\ ~isBulkLoading
    /\ isBulkLoading' = TRUE
    /\ bulkReader' = << file >>
    /\ bulkClosureItems' = scannedItems
    /\ bulkBarcodes' = << >>
    /\ bulkIndex' = 0
    /\ bulkTimer' = FALSE
    /\ bulkCalls' = << >>
    /\ lastResult' = NoResult
    /\ UNCHANGED << page, permissionChoiceMade, selectedLibrary, selectedLocation,
                    customLibraries, kohaData, kohaDataMap, scannedItems,
                    processedBarcodes, currentSessionName, isRestoringSession, clock >>
    /\ StorageAfter

\* a bulk upload into an empty ledger
BulkUpload(file) ==
    /\ scannedItems = << >>
    /\ handleBulkUpload(file)

\* reader.onload of handleBulkUpload: the lines of the file,
\* processBarcodesInChunks and its first processChunk
ReaderOnLoad(sameMs) ==
    /\ UNCHANGED componentVars
    /\ bulkReader # << >>
    /\ bulkReader' = << >>
    /\ bulkBarcodes' = bulkLines(bulkReader[1])
    /\ UNCHANGED bulkClosureItems
    /\ processChunk(bulkLines(bulkReader[1]), 0, << >>, bulkClosureItems, sameMs)
    /\ UNCHANGED << page, permissionChoiceMade, selectedLibrary, selectedLocation,
                    customLibraries, kohaData, kohaDataMap, currentSessionName,
                    isRestoringSession >>
    /\ StorageAfter

\* the timer callback processChunk
ProcessChunk(sameMs) ==
    /\ UNCHANGED componentVars
    /\ bulkTimer
    /\ UNCHANGED << bulkBarcodes, bulkClosureItems, bulkReader >>
    /\ processChunk(bulkBarcodes, bulkIndex, bulkCalls, bulkClosureItems, sameMs)
    /\ UNCHANGED << page, permissionChoiceMade, selectedLibrary, selectedLocation,
                    customLibraries, kohaData, kohaDataMap, currentSessionName,
                    isRestoringSession >>
    /\ StorageAfter

\* a reload of the page: every useState and useRef starts again and the mount
\* effect restores the active session from localStorage
Reload ==
    /\ UNCHANGED componentVars
    /\ lastResult' = NoResult
    /\ isBulkLoading' = FALSE
    /\ bulkBarcodes' = << >>
    /\ bulkIndex' = 0
    /\ bulkTimer' = FALSE
    /\ bulkClosureItems' = << >>
    /\ bulkReader' = << >>
    /\ bulkCalls' = << >>
    /\ permissionChoiceMade' = permissionChoiceMade
    /\ customLibraries' = customLibraries
    /\ clock' = clock
    /\ IF activeSessionName # "" /\ storedSessions[activeSessionName] # << >>
       THEN LoadedFrom(storedSessions[activeSessionName][1])
       ELSE /\ currentSessionName' = ""
            /\ selectedLibrary' = << >>
            /\ selectedLocation' = ""
            /\ scannedItems' = << >>
            /\ processedBarcodes' = {}
            /\ kohaData' = << >>
            /\ kohaDataMap' = BuildMap(<< >>)
            /\ page' = IF permissionChoiceMade THEN "start" ELSE "permission"
            /\ isRestoringSession' = FALSE
    /\ StorageAfter

Pages == { "start", "pre-reports", "scan", "update-on-loan", "summary" }

Next ==
    \/ PermissionDecision
    \/ \E target \in Pages : Navigate(target)
    \/ \E code \in { << >> } \cup { INITIAL_LIBRARIES[i] : i \in DOMAIN INITIAL_LIBRARIES }
                   \cup CustomLibraryCodes : SelectLibrary(code)
    \/ \E code \in LocationCodes : SelectLocation(code)
    \/ \E code \in CustomLibraryCodes : AddCustomLibrary(code)
    \/ \E json \in CatalogFiles : ExcelUpload(json)
    \/ \E name \in SessionNames : StartNewSession(name)
    \/ \E name \in SessionNames : LoadSession(name)
    \/ \E name \in SessionNames : DeleteSession(name)
    \/ \E barcode \in Barcodes : Scan(barcode)
    \/ \E ts \in 1..MaxClock : DeleteItem(ts)
    \/ ClearAllScans
    \/ \E barcodes \in OnLoanFiles, sameMs \in BOOLEAN : OnLoanUpload(barcodes, sameMs)
    \/ Reload

Spec == Init /\ [][Next]_vars

-----------------------------------------------------------------------------
(* The classifier alone: the scan screen with a catalog loaded and a scope   *)
(* chosen, every text of ClassifierBarcodes scanned                          *)

InitClassifier ==
    /\ page = "scan"
    /\ permissionChoiceMade = TRUE
    /\ customLibraries \in SUBSET CustomLibraryCodes
    /\ selectedLibrary \in { INITIAL_LIBRARIES[i] : i \in DOMAIN INITIAL_LIBRARIES }
                           \cup customLibraries
    /\ selectedLocation \in LocationCodes
    /\ kohaData = SampleCatalog
    /\ kohaDataMap = BuildMap(SampleCatalog)
    /\ scannedItems = << >>
    /\ processedBarcodes = {}
    /\ currentSessionName = ""
    /\ storedSessions = [ n \in SessionNames |-> << >> ]
    /\ activeSessionName = ""
    /\ isRestoringSession = FALSE
    /\ clock = 0
    /\ lastResult = NoResult
    /\ BulkIdle
    /\ ComponentsIdle

NextClassifier == \E barcode \in ClassifierBarcodes : Scan(barcode)

SpecClassifier == InitClassifier /\ [][NextClassifier]_vars

-----------------------------------------------------------------------------
(* The bulk upload alone: the scan screen with a catalog loaded, one text    *)
(* file uploaded into the empty ledger, its chunks, and deletions afterwards *)

\* the numbers of lines of the bulk files: none, less than a chunk, one line
\* less than a chunk, exactly one chunk, one line more, two chunks, and more
BulkSizes ==
    { 0, 1, 2, 4, 5, chunkSize + 49, chunkSize + 50, chunkSize + 51,
      chunkSize + 52, 2 * chunkSize + 100, MaxBulk }

\* the numbers of lines of the files uploaded into a ledger that holds events
ShortBulkSizes == { 4, 5 }

FirstBulkUpload(n) ==
    /\ clock = 0
    /\ BulkUpload(BulkFile(n))

\* the scans made before a bulk upload
ScanBeforeBulk(barcode) ==
    /\ ~isBulkLoading
    /\ bulkCalls = << >>
    /\ Scan(barcode)

\* a bulk upload of a short file into a ledger that holds events
LaterBulkUpload(n) ==
    /\ scannedItems # << >>
    /\ clock <= MaxClock
    /\ handleBulkUpload(BulkFile(n))

DeleteAfterBulk(ts) ==
    /\ ~isBulkLoading
    /\ DeleteItem(ts)

NextBulk ==
    \/ \E n \in BulkSizes : FirstBulkUpload(n)
    \/ \E barcode \in Barcodes : ScanBeforeBulk(barcode)
    \/ \E n \in ShortBulkSizes : LaterBulkUpload(n)
    \/ \E sameMs \in BOOLEAN : ReaderOnLoad(sameMs)
    \/ \E sameMs \in BOOLEAN : ProcessChunk(sameMs)
    \/ \E ts \in 1..MaxClock : DeleteAfterBulk(ts)

SpecBulk == InitClassifier /\ [][NextBulk]_vars

-----------------------------------------------------------------------------
(* public/worker.js: the worker's globals kohaDataMap, combinedLibraries and *)
(* processedBarcodes, its message handler and the messages it posts          *)

\* the variables of the component App, which no message of the worker touches
appVars == << page, permissionChoiceMade, selectedLibrary, selectedLocation,
              customLibraries, kohaData, kohaDataMap, scannedItems,
              processedBarcodes, currentSessionName, storedSessions,
              activeSessionName, isRestoringSession, clock, lastResult >>

\* self.postMessage({ type, payload }): results is the payload of
\* BARCODE_PROCESSED and BULK_PROCESSED, current and total that of BULK_PROGRESS
Message(type, results, current, total) ==
    [ type |-> type, results |-> results, current |-> current, total |-> total ]

\* isIsbn of the worker
workerIsIsbn(barcode) ==
    LET code == StripNonDigits(barcode)
        sum  == LET RECURSIVE Acc(_)
                    Acc(i) == IF i = 0 THEN 0
                              ELSE Acc(i - 1) +
                                   (IF (i - 1) % 2 = 0 THEN code[i] * 1 ELSE code[i] * 3)
                IN  Acc(12)
    IN  /\ Len(code) = 13
        /\ (StartsWith(code, <<9, 7, 8>>) \/ StartsWith(code, <<9, 7, 9>>))
        /\ (10 - (sum % 10)) % 10 = code[13]

\* normalizedBarcode of processBarcodeLogic
workerNormalizedBarcode(rawBarcode, library) ==
    LET original  == StripNonDigits(rawBarcode)
        prefix    == LibraryPrefix(library)
        truncated == IF Len(original) >= 13 THEN Slice0(original, 12) ELSE original
    IN  IF Len(truncated) < 12 /\ Len(truncated) > 0
        THEN prefix \o PadStart0(original, 12 - Len(prefix))
        ELSE truncated

\* the loop over combinedLibraries.entries(): the first library whose prefix
\* the identifier starts with
workerFinalWarning(normalized, libraries) ==
    LET matches == { i \in DOMAIN libraries :
                         StartsWith(normalized, LibraryPrefix(libraries[i])) }
    IN  IF matches = {}
        THEN Warning("invalidStructure")
        ELSE WrongLibraryWarning(
                 LibraryName(libraries[CHOOSE i \in matches : \A j \in matches : i <= j]))

\* the pushes of processBarcodeLogic on a found row
workerCatalogWarnings(row, location) ==
    (IF location # "" /\ row.loc # location THEN << Warning("locationMismatch") >> ELSE << >>)
    \o (IF row.loan \notin { "0", "2" } THEN << Warning("notLoanable") >> ELSE << >>)
    \o (IF row.status # "0" THEN << Warning("notInCollection") >> ELSE << >>)
    \o (IF row.onLoan = "1" THEN << Warning("onLoan") >> ELSE << >>)

\* the barcode of the result of a text recognised as an ISBN
isbnResultBarcode(rawBarcode) == rawBarcode

\* processBarcodeLogic({ barcode, selectedLibrary, selectedLocation }) read
\* against the globals map, libraries and seen; << >> is null, <<result>> the
\* returned result
processBarcodeLogic(barcode, library, location, map, libraries, seen, ts) ==
    LET rawBarcode    == Trim(barcode)
        original      == StripNonDigits(rawBarcode)
        normalized    == workerNormalizedBarcode(rawBarcode, library)
        prefix        == LibraryPrefix(library)
        autoCompleted == LET truncated == IF Len(original) >= 13
                                          THEN Slice0(original, 12) ELSE original
                         IN  Len(truncated) < 12 /\ Len(truncated) > 0
        itemData      == MapGet(map, normalized)
        warnings      ==
            IF itemData # << >>
            THEN workerCatalogWarnings(itemData[1], location)
            ELSE IF autoCompleted
                 THEN << Warning("autoCompletedNotFound") >>
                 ELSE << Warning("deleted") >>
    IN  IF rawBarcode = << >> \/ library = << >>
        THEN << >>
        ELSE IF workerIsIsbn(rawBarcode)
        THEN << ScanResult(isbnResultBarcode(rawBarcode), FALSE,
                           << Warning("isbnDetected") >>, << >>, ts) >>
        ELSE IF normalized \in seen
        THEN << ScanResult(normalized, FALSE, << Warning("duplicate") >>, itemData, ts) >>
        ELSE IF Len(normalized) = 12 /\ ~StartsWith(normalized, prefix)
        THEN << ScanResult(original, FALSE,
                           << workerFinalWarning(normalized, libraries) >>, itemData, ts) >>
        ELSE << ScanResult(normalized, warnings = << >>, warnings, itemData, ts) >>

\* processBulkBarcodes: the iterations index..barcodes.length of the forEach;
\* acc holds processedBarcodes, results and the messages posted so far
RECURSIVE processBulkLoop(_, _, _, _, _, _, _, _)
processBulkLoop(barcodes, index, library, location, map, libraries, ts, acc) ==
    IF index > Len(barcodes)
    THEN acc
    ELSE LET result   == processBarcodeLogic(barcodes[index], library, location, map,
                                             libraries, acc.seen, ts)
             progress == IF index % 100 = 0 \/ index = Len(barcodes)
                         THEN << Message("BULK_PROGRESS", << >>, index, Len(barcodes)) >>
                         ELSE << >>
         IN  processBulkLoop(barcodes, index + 1, library, location, map, libraries, ts,
                 [ seen    |-> IF result # << >>
                               THEN acc.seen \cup { result[1].barcode } ELSE acc.seen,
                   results |-> acc.results \o result,
                   posted  |-> acc.posted \o progress ])

\* the payloads of the model
WorkerBarcodes ==
    { <<1,0,1,2,0,0,0,1,2,3,4,5>>,
      <<9,9,9,9,0,0,0,1,2,3,4,5>>,
      <<9,9,9,9,0,0,0,1,2,3,4,5,1>>,
      <<9,7,8,0,1,3,4,1,9,0,4,4,0>>,
      <<5,5>>,
      <<Blank>> }

WorkerBulkLists ==
    { << >>,
      << <<9,7,8,0,1,3,4,1,9,0,4,4,0>>, <<1,0,1,2,0,0,0,1,2,3,4,5>>, <<5,5>> >>,
      << <<9,9,9,9,0,0,0,1,2,3,4,5,1>>, <<9,9,9,9,0,0,0,1,2,3,4,5>> >> }

WorkerLibraries == { << 1, 2 >>, << >> }

WorkerContexts ==
    { [ libraryOptions |-> libraryOptions(custom), processedBarcodes |-> seen ] :
        custom \in SUBSET CustomLibraryCodes,
        seen \in { {}, { <<1,0,1,2,0,0,0,1,2,3,4,5>> } } }

\* case 'SET_CONTEXT'
WorkerSetContext(payload) ==
    /\ workerCombinedLibraries' = payload.libraryOptions
    /\ workerProcessedBarcodes' = payload.processedBarcodes
    /\ workerPosted' = << >>
    /\ UNCHANGED << workerKohaDataMap, appVars, bulkVars, scannerVars, inputVars >>

\* case 'RESET_STATE'
WorkerResetState ==
    /\ workerKohaDataMap' = BuildMap(<< >>)
    /\ workerProcessedBarcodes' = {}
    /\ workerPosted' = << Message("STATE_RESET", << >>, 0, 0) >>
    /\ UNCHANGED << workerCombinedLibraries, appVars, bulkVars, scannerVars, inputVars >>

\* case 'LOAD_EXCEL': handleExcelLoad, reader.onload
WorkerLoadExcel(json) ==
    /\ IF json = << >> \/ ~json[1].hasBarkod
       THEN /\ workerPosted' = << Message("ERROR", << >>, 0, 0) >>
            /\ UNCHANGED workerKohaDataMap
       ELSE /\ workerKohaDataMap' = BuildMap(json)
            /\ workerPosted' = << Message("DATA_READY", << >>, 0, 0) >>
    /\ UNCHANGED << workerCombinedLibraries, workerProcessedBarcodes,
                    appVars, bulkVars, scannerVars, inputVars >>

\* case 'PROCESS_BARCODE': processSingleBarcode
WorkerProcessBarcode(barcode, library, location) ==
    LET result == processBarcodeLogic(barcode, library, location, workerKohaDataMap,
                                      workerCombinedLibraries, workerProcessedBarcodes,
                                      clock)
    IN  /\ IF result # << >>
           THEN /\ workerProcessedBarcodes' =
                       workerProcessedBarcodes \cup { result[1].barcode }
                /\ workerPosted' = << Message("BARCODE_PROCESSED", result, 0, 0) >>
           ELSE /\ workerPosted' = << >>
                /\ UNCHANGED workerProcessedBarcodes
        /\ UNCHANGED << workerKohaDataMap, workerCombinedLibraries,
                        appVars, bulkVars, scannerVars, inputVars >>

\* case 'PROCESS_BULK': processBulkBarcodes
WorkerProcessBulk(barcodes, library, location) ==
    LET r == processBulkLoop(barcodes, 1, library, location, workerKohaDataMap,
                             workerCombinedLibraries, clock,
                             [ seen    |-> workerProcessedBarcodes,
                               results |-> << >>,
                               posted  |-> << >> ])
    IN  /\ workerProcessedBarcodes' = r.seen
        /\ workerPosted' = r.posted \o << Message("BULK_PROCESSED", r.results, 0, 0) >>
        /\ UNCHANGED << workerKohaDataMap, workerCombinedLibraries,
                        appVars, bulkVars, scannerVars, inputVars >>

NextWorker ==
    \/ \E payload \in WorkerContexts : WorkerSetContext(payload)
    \/ WorkerResetState
    \/ \E json \in CatalogFiles : WorkerLoadExcel(json)
    \/ \E barcode \in WorkerBarcodes, library \in WorkerLibraries, location \in LocationCodes :
           WorkerProcessBarcode(barcode, library, location)
    \/ \E barcodes \in WorkerBulkLists, library \in WorkerLibraries, location \in LocationCodes :
           WorkerProcessBulk(barcodes, library, location)

SpecWorker == Init /\ [][NextWorker]_vars

-----------------------------------------------------------------------------
(* The library directory with several custom libraries: the scan screen with *)
(* a catalog loaded, a subset of DirectoryCodes registered, one library of   *)
(* the directory selected, the texts of DirectoryBarcodes scanned            *)

\* the library codes a user adds with "Yeni Ekle": prefixes 9999, 99990, 10120
DirectoryCodes == { <<8, 9, 9, 9>>, <<9, 8, 9, 9, 0>>, <<9, 1, 2, 0>> }

DirectoryBarcodes ==
    { <<1,0,1,2,0,0,0,1,2,3,4,5>>,
      <<9,9,9,9,0,0,0,1,2,3,4,5>>,
      <<9,9,9,9,0,0,0,1,2,3,4,5,1>>,
      <<5,5,5,5,0,0,0,1,2,3,4,5>>,
      <<5,5>> }

InitDirectory ==
    /\ page = "scan"
    /\ permissionChoiceMade = TRUE
    /\ customLibraries \in SUBSET DirectoryCodes
    /\ selectedLibrary \in { INITIAL_LIBRARIES[i] : i \in DOMAIN INITIAL_LIBRARIES }
                           \cup customLibraries
    /\ selectedLocation \in LocationCodes
    /\ kohaData = SampleCatalog
    /\ kohaDataMap = BuildMap(SampleCatalog)
    /\ scannedItems = << >>
    /\ processedBarcodes = {}
    /\ currentSessionName = ""
    /\ storedSessions = [ n \in SessionNames |-> << >> ]
    /\ activeSessionName = ""
    /\ isRestoringSession = FALSE
    /\ clock = 0
    /\ lastResult = NoResult
    /\ BulkIdle
    /\ ComponentsIdle

NextDirectory == \E barcode \in DirectoryBarcodes : Scan(barcode)

SpecDirectory == InitDirectory /\ [][NextDirectory]_vars

-----------------------------------------------------------------------------
(* RobustBarcodeScanner: the camera overlay of the scan screen.  The         *)
(* component is mounted while isCameraOpen; its refs throttleTimeoutRef and  *)
(* scannedCodesThisSessionRef are created on mount and its cleanup clears    *)
(* the cooldown timer on unmount.  The effect that starts the camera re-runs *)
(* when isPaused changes, so handleScanResult reads the current isPaused.    *)

\* an entry of scannerLog
OnScanCall(decodedText, outcome) == [ text |-> decodedText, outcome |-> outcome ]
CooldownEntry == [ text |-> << >>, outcome |-> "cooldownFired" ]
CameraOpenedEntry == [ text |-> << >>, outcome |-> "cameraOpened" ]

\* the first return of handleScanResult ignoring the cooldown
isBlockedWhilePausedOnly(isPaused, throttle) == isPaused

\* if (isPaused || throttleTimeoutRef.current) return
isBlocked(isPaused, throttle) == isPaused \/ throttle

\* a scanner that records and throttles every outcome
throttlesEveryOutcome(outcome) == TRUE

\* if (scanResult.outcome === 'isbn') return: the other outcomes are recorded
\* in the set of the camera session and start the cooldown
throttlesOutcome(outcome) == outcome # "isbn"

\* the texts the camera decodes in this model
ScannerTexts ==
    { <<1,0,1,2,0,0,0,1,2,3,4,5>>,
      <<1,0,1,2,0,0,0,0,0,0,5,5>>,
      <<9,7,8,0,1,3,4,1,9,0,4,4,0>> }

\* the button "Kamera ile Tara": setIsCameraOpen(true) mounts the scanner
OpenCamera ==
    /\ page = "scan"
    /\ ~isCameraOpen
    /\ Len(scannerLog) < MaxLog
    /\ BulkReleased
    /\ isCameraOpen' = TRUE
    /\ throttleTimeout' = FALSE
    /\ scannedCodesThisSession' = {}
    /\ scannerLog' = Append(scannerLog, CameraOpenedEntry)
    /\ UNCHANGED << appVars, warningModalIsOpen, inputVars, workerVars >>

\* the button "Kamerayi Kapat": onClose unmounts the scanner, whose cleanup
\* clears the cooldown timer
CloseCamera ==
    /\ isCameraOpen
    /\ BulkReleased
    /\ isCameraOpen' = FALSE
    /\ throttleTimeout' = FALSE
    /\ scannedCodesThisSession' = {}
    /\ UNCHANGED << appVars, scannerLog, warningModalIsOpen, inputVars, workerVars >>

\* WarningModal onClose
CloseWarningModal ==
    /\ warningModalIsOpen
    /\ BulkReleased
    /\ warningModalIsOpen' = FALSE
    /\ UNCHANGED << appVars, isCameraOpen, throttleTimeout, scannedCodesThisSession,
                    scannerLog, inputVars, workerVars >>

\* the callback of the cooldown timer: throttleTimeoutRef.current = null
CooldownFired ==
    /\ isCameraOpen
    /\ throttleTimeout
    /\ Len(scannerLog) < MaxLog
    /\ BulkReleased
    /\ throttleTimeout' = FALSE
    /\ scannerLog' = Append(scannerLog, CooldownEntry)
    /\ UNCHANGED << appVars, isCameraOpen, scannedCodesThisSession, warningModalIsOpen,
                    inputVars, workerVars >>

\* handleScanResult(decodedText) with onScan = handleCameraScan: the camera
\* decoded a text
CameraDecode(decodedText) ==
    /\ page = "scan"
    /\ isCameraOpen
    /\ clock < MaxClock
    /\ Len(scannerLog) < MaxLog
    /\ BulkReleased
    /\ UNCHANGED << inputVars, workerVars >>
    /\ IF isBlocked(warningModalIsOpen, throttleTimeout)
          \/ decodedText \in scannedCodesThisSession
       THEN UNCHANGED << appVars, scannerVars >>
       ELSE LET r == processBarcode(decodedText, FALSE, scannedItems, processedBarcodes,
                                    scannedItems, clock + 1)
            IN  /\ scannedItems' = r.items
                /\ processedBarcodes' = r.seen
                /\ lastResult' = [ outcome |-> r.outcome, warnings |-> r.warnings ]
                /\ clock' = IF r.items = scannedItems THEN clock ELSE clock + 1
                /\ warningModalIsOpen' = r.modal
                /\ scannerLog' = Append(scannerLog, OnScanCall(decodedText, r.outcome))
                /\ IF r.outcome = "error"
                   THEN \* setIsCameraOpen(false): the scanner is unmounted
                        /\ isCameraOpen' = FALSE
                        /\ throttleTimeout' = FALSE
                        /\ scannedCodesThisSession' = {}
                   ELSE IF throttlesOutcome(r.outcome)
                   THEN /\ scannedCodesThisSession' =
                               scannedCodesThisSession \cup { decodedText }
                        /\ throttleTimeout' = TRUE
                        /\ UNCHANGED isCameraOpen
                   ELSE UNCHANGED << isCameraOpen, throttleTimeout,
                                     scannedCodesThisSession >>
                /\ UNCHANGED << page, permissionChoiceMade, selectedLibrary,
                                selectedLocation, customLibraries, kohaData, kohaDataMap,
                                currentSessionName, isRestoringSession >>
                /\ StorageAfter

NextScanner ==
    \/ OpenCamera
    \/ CloseCamera
    \/ CloseWarningModal
    \/ CooldownFired
    \/ \E decodedText \in ScannerTexts : CameraDecode(decodedText)

SpecScanner == InitClassifier /\ [][NextScanner]_vars

-----------------------------------------------------------------------------
(* The manual input of the scan screen: the text field barcodeInput with its *)
(* 100 ms debounce timer and the form submit                                 *)

\* a submit that leaves the debounce timer pending
debounceKeptBySubmit(debounce) == debounce

\* handleManualEntry: if (manualInputDebounceRef.current) clearTimeout(...)
debounceAfterSubmit(debounce) == << >>

\* the texts typed or pasted into the input in this model
InputTexts ==
    { <<1,0,1,2,0,0,0,1,2,3,4,5>>,
      <<1,0,1,2,NonDigit,0,0,0,1,2,3,4,5,1>>,
      <<9,7,8,0,1,3,4,1,9,0,4,4,0>>,
      <<5,5>>,
      <<NonDigit>> }

\* processBarcode(value) called by the manual input at the state of the call
ManualCall(value) ==
    LET r == processBarcode(value, FALSE, scannedItems, processedBarcodes,
                            scannedItems, clock + 1)
    IN  /\ scannedItems' = r.items
        /\ processedBarcodes' = r.seen
        /\ lastResult' = [ outcome |-> r.outcome, warnings |-> r.warnings ]
        /\ clock' = IF r.items = scannedItems THEN clock ELSE clock + 1
        /\ warningModalIsOpen' = (r.modal \/ warningModalIsOpen)
        /\ manualCalls' = Append(manualCalls, value)
        /\ UNCHANGED << page, permissionChoiceMade, selectedLibrary, selectedLocation,
                        customLibraries, kohaData, kohaDataMap, currentSessionName,
                        isRestoringSession >>
        /\ StorageAfter

\* handleBarcodeInput(e) with e.target.value = text
TypeBarcode(text) ==
    /\ page = "scan"
    /\ BulkReleased
    /\ barcodeInput' = StripNonDigits(text)
    /\ manualInputDebounce' = IF Len(StripNonDigits(text)) >= 12
                              THEN << StripNonDigits(text) >> ELSE << >>
    /\ UNCHANGED << appVars, manualCalls, scannerVars, workerVars >>

\* the callback of the debounce timer: processBarcode(value); setBarcodeInput('')
DebounceFired ==
    /\ manualInputDebounce # << >>
    /\ clock < MaxClock
    /\ Len(manualCalls) < MaxLog
    /\ BulkReleased
    /\ ManualCall(manualInputDebounce[1])
    /\ barcodeInput' = << >>
    /\ manualInputDebounce' = << >>
    /\ UNCHANGED << isCameraOpen, throttleTimeout, scannedCodesThisSession, scannerLog,
                    workerVars >>

\* handleManualEntry(e): the submit of the form
SubmitManualEntry ==
    /\ page = "scan"
    /\ clock < MaxClock
    /\ Len(manualCalls) < MaxLog
    /\ BulkReleased
    /\ IF barcodeInput # << >>
       THEN /\ manualInputDebounce' = debounceAfterSubmit(manualInputDebounce)
            /\ ManualCall(barcodeInput)
            /\ barcodeInput' = << >>
            /\ UNCHANGED << isCameraOpen, throttleTimeout, scannedCodesThisSession,
                            scannerLog, workerVars >>
       ELSE UNCHANGED << appVars, inputVars, scannerVars, workerVars >>

NextInput ==
    \/ \E text \in InputTexts : TypeBarcode(text)
    \/ DebounceFired
    \/ SubmitManualEntry

SpecInput == InitClassifier /\ [][NextInput]_vars

-----------------------------------------------------------------------------
(* Properties *)

\* the digits of a text, in order
ClaimDigits(barcode) ==
    LET Digit(c) == c \in {0, 1, 2, 3, 4, 5, 6, 7, 8, 9} IN SelectSeq(barcode, Digit)

\* an EAN-13 code of the book ranges 978 and 979: the weighted sum of all
\* thirteen digits, weights 1 and 3 in turn, is a multiple of ten
ValidIsbn13(code) ==
    /\ Len(code) = 13
    /\ SubSeq(code, 1, 3) \in { <<9, 7, 8>>, <<9, 7, 9>> }
    /\ ( code[1] + 3 * code[2] + code[3] + 3 * code[4] + code[5] + 3 * code[6]
         + code[7] + 3 * code[8] + code[9] + 3 * code[10] + code[11] + 3 * code[12]
         + code[13] ) % 10 = 0

\* the expected prefix str(int(code) + 1000) of the library codes of the model
ClaimPrefix(library) ==
    IF library = <<1, 2>> THEN <<1, 0, 1, 2>> ELSE <<9, 9, 9, 9>>

\* a call that is neither ignored nor an ISBN notification
Classified(barcode) ==
    /\ selectedLibrary # << >>
    /\ \E i \in DOMAIN barcode : barcode[i] # Blank
    /\ ~ValidIsbn13(ClaimDigits(barcode))

\* the normalized identifier an event of the ledger was classified under: the
\* event of a structurally rejected scan shows the digits of the input, whose
\* first 12 are the identifier
ClassifiedIdentifier(item) ==
    IF WarningIds(item) \cap { "wrongLibrary", "invalidStructure" } # {}
       /\ Len(item.barcode) > 12
    THEN SubSeq(item.barcode, 1, 12)
    ELSE item.barcode

StructuralIds == { "wrongLibrary", "invalidStructure" }
CatalogIds == { "locationMismatch", "notLoanable", "notInCollection", "onLoan",
                "deleted", "autoCompletedNotFound" }

\* C1: the seen set equals the set of barcode values of the ledger events
\* whose warnings do not include duplicate, in every reachable state
C1_SeenEqualsLedger ==
    processedBarcodes =
        { scannedItems[i].barcode :
            i \in { j \in DOMAIN scannedItems :
                      "duplicate" \notin WarningIds(scannedItems[j]) } }

\* C2: a scan whose normalized identifier is the identifier of an event still
\* in the ledger prepends exactly one event with warnings [duplicate] and
\* isValid false, and leaves the seen set unchanged
C2_DuplicateShortCircuit ==
    [][ \A barcode \in Barcodes :
          ( /\ Classified(barcode)
            /\ \E i \in DOMAIN scannedItems :
                 ClassifiedIdentifier(scannedItems[i])
                     = normalizedBarcode(barcode, selectedLibrary)
            /\ Scan(barcode) )
          => /\ Len(scannedItems') = Len(scannedItems) + 1
             /\ Tail(scannedItems') = scannedItems
             /\ Head(scannedItems').warnings = << Warning("duplicate") >>
             /\ Head(scannedItems').isValid = FALSE
             /\ processedBarcodes' = processedBarcodes ]_vars

\* C3: reloading the current session (a page reload, or loadSession of the
\* session that was just auto-saved) leaves the seen set as it was
C3_RoundTripKeepsSeen ==
    [][ \A name \in SessionNames :
          ( /\ currentSessionName = name
            /\ (Reload \/ LoadSession(name)) )
          => processedBarcodes' = processedBarcodes ]_vars

\* a scan of a text whose normalized identifier has 12 characters and not the
\* expected prefix
ForeignScan(barcode) ==
    /\ Classified(barcode)
    /\ Len(normalizedBarcode(barcode, selectedLibrary)) = 12
    /\ SubSeq(normalizedBarcode(barcode, selectedLibrary), 1, 4)
           # ClaimPrefix(selectedLibrary)
    /\ Scan(barcode)

\* C4 as stated: every such scan produces exactly one warning, wrongLibrary or
\* invalidStructure
C4_StructuralOnly ==
    [][ \A barcode \in ClassifierBarcodes :
          ForeignScan(barcode)
          => /\ Len(lastResult'.warnings) = 1
             /\ lastResult'.warnings[1].id \in StructuralIds ]_vars

\* C4 amended: every such scan produces exactly one warning: duplicate when the
\* identifier is in the seen set, otherwise wrongLibrary or invalidStructure;
\* the event carries that warning and none of the catalog warnings
C4_StructuralOrDuplicate ==
    [][ \A barcode \in ClassifierBarcodes :
          ForeignScan(barcode)
          => /\ Len(lastResult'.warnings) = 1
             /\ Head(scannedItems').warnings = lastResult'.warnings
             /\ Head(scannedItems').isValid = FALSE
             /\ IF normalizedBarcode(barcode, selectedLibrary) \in processedBarcodes
                THEN lastResult'.warnings[1].id = "duplicate"
                ELSE lastResult'.warnings[1].id \in StructuralIds
             /\ WarningIds(Head(scannedItems')) \cap CatalogIds = {} ]_vars

\* a structurally rejected scan whose identifier is a key of the catalog, with
\* a row the catalog checks would have warned about
C4_Witness ==
    /\ lastResult.warnings # << >>
    /\ lastResult.warnings[1].id \in StructuralIds
    /\ scannedItems # << >>
    /\ Head(scannedItems).data # << >>
    /\ catalogWarnings(Head(scannedItems).data[1], selectedLocation) # << >>

\* C5: a text whose digits are a valid ISBN-13 returns the isbn outcome with
\* no warning and changes neither the ledger nor the seen set
C5_IsbnPrecedence ==
    [][ \A barcode \in ClassifierBarcodes :
          ( /\ selectedLibrary # << >>
            /\ ValidIsbn13(ClaimDigits(barcode))
            /\ Scan(barcode) )
          => /\ lastResult'.outcome = "isbn"
             /\ lastResult'.warnings = << >>
             /\ scannedItems' = scannedItems
             /\ processedBarcodes' = processedBarcodes ]_vars

\* an ISBN notification while the first 12 digits of the ISBN are in the seen
\* set and a key of the catalog
C5_Witness ==
    /\ lastResult.outcome = "isbn"
    /\ <<9,7,8,0,1,3,4,1,9,0,4,4>> \in processedBarcodes
    /\ <<9,7,8,0,1,3,4,1,9,0,4,4>> \in DOMAIN kohaDataMap

\* C6: every call is ignored (empty trimmed text or no library; ledger and
\* seen set unchanged), an ISBN notification (ledger and seen set unchanged),
\* or prepends exactly one event to the unchanged earlier events
C6_OneOutcomePerCall ==
    [][ \A barcode \in Barcodes :
          Scan(barcode)
          => \/ /\ lastResult'.outcome = "ignored"
                /\ selectedLibrary = << >> \/ \A i \in DOMAIN barcode : barcode[i] = Blank
                /\ scannedItems' = scannedItems
                /\ processedBarcodes' = processedBarcodes
             \/ /\ lastResult'.outcome = "isbn"
                /\ Classified(barcode) = FALSE
                /\ scannedItems' = scannedItems
                /\ processedBarcodes' = processedBarcodes
             \/ /\ lastResult'.outcome \in { "success", "error" }
                /\ Classified(barcode)
                /\ Len(scannedItems') = Len(scannedItems) + 1
                /\ Tail(scannedItems') = scannedItems ]_vars

\* an event prepended to a ledger that already held one
C6_Witness ==
    /\ lastResult.outcome \in { "success", "error" }
    /\ Len(scannedItems) >= 2
    /\ Head(scannedItems).timestamp = clock

\* C7: every identifier in the seen set has exactly 12 characters
C7_SeenIdentifiersHave12Characters ==
    \A id \in processedBarcodes : Len(id) = 12

\* the identifier C8 states for a text with fewer than 12 digits
ClaimAutoCompleted(barcode, library) ==
    LET digits == ClaimDigits(barcode)
        room   == 12 - Len(ClaimPrefix(library)) - Len(digits)
    IN  IF room > 0
        THEN ClaimPrefix(library) \o [ i \in 1..room |-> 0 ] \o digits
        ELSE ClaimPrefix(library) \o digits

\* C8: a text with 1 to 11 digits is classified under the prefix followed by
\* the digits left-padded with zeros to 12 - len(prefix), longer digits
\* unpadded, and counts as auto-completed; "55" under library 12 gives
\* 101200000055
C8_AutoCompletion ==
    [][ \A barcode \in ClassifierBarcodes :
          ( /\ Classified(barcode)
            /\ Len(ClaimDigits(barcode)) \in 1..11
            /\ Scan(barcode) )
          => LET id == ClaimAutoCompleted(barcode, selectedLibrary)
             IN  /\ wasAutoCompleted(barcode)
                 /\ normalizedBarcode(barcode, selectedLibrary) = id
                 /\ Head(scannedItems').barcode = id
                 /\ processedBarcodes' = processedBarcodes \cup { id }
                 /\ (id \notin processedBarcodes /\ id \notin DOMAIN kohaDataMap)
                      => lastResult'.warnings = << Warning("autoCompletedNotFound") >>
                 /\ (selectedLibrary = <<1, 2>> /\ ClaimDigits(barcode) = <<5, 5>>)
                      => id = <<1,0,1,2,0,0,0,0,0,0,5,5>> ]_vars

\* "55" scanned under library 12
C8_Witness ==
    /\ selectedLibrary = <<1, 2>>
    /\ lastResult.outcome = "error"
    /\ scannedItems # << >>
    /\ Head(scannedItems).barcode = <<1,0,1,2,0,0,0,0,0,0,5,5>>
    /\ Head(scannedItems).timestamp = clock

\* the identifiers the events of the ledger were classified under
ClassifiedIdentifiers == { ClassifiedIdentifier(scannedItems[i]) : i \in DOMAIN scannedItems }

\* C9: the end-to-end scenario under library 12 with 101200012345 in the
\* catalog (in collection, loan code 0, location YB, not on loan) and the
\* location scope unset or YB; a first scan is a scan of an identifier no
\* event of the ledger was classified under
C9_Scenario ==
    [][ ( /\ selectedLibrary = <<1, 2>>
          /\ MapGet(kohaDataMap, <<1,0,1,2,0,0,0,1,2,3,4,5>>)
               = << Row(<<1,0,1,2,0,0,0,1,2,3,4,5>>, "0", "0", "YB", "0") >>
          /\ selectedLocation \in { "", "YB" } )
        => /\ ( /\ Scan(<<1,0,1,2,0,0,0,1,2,3,4,5>>)
                /\ <<1,0,1,2,0,0,0,1,2,3,4,5>> \notin ClassifiedIdentifiers )
              => /\ Head(scannedItems').isValid
                 /\ Head(scannedItems').warnings = << >>
                 /\ lastResult'.outcome = "success"
           /\ ( /\ Scan(<<1,0,1,2,0,0,0,1,2,3,4,5>>)
                /\ <<1,0,1,2,0,0,0,1,2,3,4,5>> \in ClassifiedIdentifiers )
              => Head(scannedItems').warnings = << Warning("duplicate") >>
           /\ ( /\ Scan(<<9,9,9,9,0,0,0,1,2,3,4,5>>)
                /\ <<9,9,9,9,0,0,0,1,2,3,4,5>> \notin ClassifiedIdentifiers
                /\ <<8, 9, 9, 9>> \notin customLibraries )
              => Head(scannedItems').warnings = << Warning("invalidStructure") >>
           /\ ( /\ Scan(<<9,9,9,9,8,8,8,8,7,7,7,7>>)
                /\ <<9,9,9,9,8,8,8,8,7,7,7,7>> \notin ClassifiedIdentifiers
                /\ <<8, 9, 9, 9>> \in customLibraries )
              => Head(scannedItems').warnings
                   = << [ id |-> "wrongLibrary", libraryName |-> "CUSTOM LIBRARY 8999" ] >>
      ]_vars

\* 101200012345 scanned twice under library 12: a valid event, then a duplicate
C9_Witness ==
    /\ selectedLibrary = <<1, 2>>
    /\ Len(scannedItems) = 2
    /\ scannedItems[2].barcode = <<1,0,1,2,0,0,0,1,2,3,4,5>>
    /\ scannedItems[2].isValid
    /\ scannedItems[1].barcode = <<1,0,1,2,0,0,0,1,2,3,4,5>>
    /\ scannedItems[1].warnings = << Warning("duplicate") >>

\* rows without the row at position i
WithoutRow(rows, i) == SubSeq(rows, 1, i - 1) \o SubSeq(rows, i + 1, Len(rows))

\* the missing counter of a location, 0 for a location without an entry
MissingAt(status, loc) == IF loc \in DOMAIN status THEN status[loc].Eksik ELSE 0

\* a row that is not in collection and whose barcode no event of the ledger has
WithdrawnUnscanned(i) ==
    /\ kohaData[i].status # "0"
    /\ \A j \in DOMAIN scannedItems : scannedItems[j].barcode # kohaData[i].barkod

\* C10: a catalog record not in collection that was never scanned is not among
\* the missing barcodes, and the summary with it has the same missing count
\* and the same missing counter at every location as the summary without it
C10_WithdrawnNotMissing ==
    \A i \in DOMAIN kohaData :
        WithdrawnUnscanned(i)
        => LET with    == summaryData(scannedItems, kohaData)
               without == summaryData(scannedItems, WithoutRow(kohaData, i))
           IN  /\ kohaData[i].barkod \notin notScannedBarcodes(scannedItems, kohaData)
               /\ with.notScannedCount = without.notScannedCount
               /\ \A loc \in DOMAIN with.locationStatus \cup DOMAIN without.locationStatus :
                      MissingAt(with.locationStatus, loc)
                          = MissingAt(without.locationStatus, loc)

\* a summary with scans and missing items over a catalog that holds a
\* withdrawn, unscanned record
C10_Witness ==
    /\ scannedItems # << >>
    /\ \E i \in DOMAIN kohaData : WithdrawnUnscanned(i)
    /\ summaryData(scannedItems, kohaData).notScannedCount > 0
    /\ summaryData(scannedItems, kohaData).valid > 0

\* C11: in the summary each identifier contributes at most 1 to valid + invalid
\* however many events of the ledger carry it, and an item in collection whose
\* first scan was valid and whose later events are all duplicate scans is
\* counted as valid
C11_OnePerIdentifier ==
    LET unique == uniqueActiveScannedItems(scannedItems)
    IN  /\ \A id \in ClassifiedIdentifiers :
              Cardinality({ b \in DOMAIN unique : ClassifiedIdentifier(unique[b]) = id }) <= 1
        /\ \A i \in DOMAIN scannedItems :
              ( /\ scannedItems[i].isValid
                /\ scannedItems[i].data # << >>
                /\ scannedItems[i].data[1].status = "0"
                /\ \A j \in DOMAIN scannedItems :
                      (j # i /\ scannedItems[j].barcode = scannedItems[i].barcode)
                      => (j < i /\ "duplicate" \in WarningIds(scannedItems[j])) )
              => /\ scannedItems[i].barcode \in DOMAIN unique
                 /\ unique[scannedItems[i].barcode].isValid

\* C12: with exactly one event in the ledger the summary reports the scan
\* throughput as unbounded or undefined, not as the number 0
C12_SingleEventThroughput ==
    Len(scannedItems) = 1
    => summaryData(scannedItems, kohaData).scanSpeed # [ kind |-> "number", value |-> 0 ]

\* C13: a catalog load with no rows or with a first row without the barkod
\* column fails with an error and leaves kohaData and kohaDataMap as they
\* were; a successful load replaces both together
C13_AtomicCatalogLoad ==
    [][ \A json \in CatalogFiles :
          ExcelUpload(json)
          => IF json = << >> \/ json[1].hasBarkod = FALSE
             THEN /\ lastResult'.outcome = "uploadError"
                  /\ kohaData' = kohaData
                  /\ kohaDataMap' = kohaDataMap
             ELSE /\ lastResult'.outcome # "uploadError"
                  /\ kohaData' = json
                  /\ DOMAIN kohaDataMap' = { json[i].barkod : i \in DOMAIN json }
                  /\ \A i \in DOMAIN json :
                        kohaDataMap'[json[i].barkod].barkod = json[i].barkod ]_vars

\* a failed load while a catalog is loaded
C13_Witness ==
    /\ lastResult.outcome = "uploadError"
    /\ kohaData # << >>
    /\ DOMAIN kohaDataMap # {}

\* the ledger without its event at position i
WithoutEvent(items, i) ==
    [ j \in 1..(Len(items) - 1) |-> IF j < i THEN items[j] ELSE items[j + 1] ]

\* C14: deleting the event with a given timestamp removes exactly that one
\* event from the ledger, also from a ledger a bulk upload filled with several
\* events of the same millisecond
C14_DeleteRemovesOneEvent ==
    [][ \A ts \in 1..MaxClock :
          DeleteAfterBulk(ts)
          => \E i \in DOMAIN scannedItems :
                /\ scannedItems[i].timestamp = ts
                /\ scannedItems' = WithoutEvent(scannedItems, i) ]_vars

\* C15: while a counting session goes on (it is not ended, and no session is
\* started or loaded) no step changes the scope, selectedLibrary and
\* selectedLocation
C15_ScopeFixedInSession ==
    [][ ( /\ currentSessionName # ""
          /\ currentSessionName' = currentSessionName
          /\ ~ \E name \in SessionNames : StartNewSession(name) \/ LoadSession(name)
          /\ ~ Reload )
        => /\ selectedLibrary' = selectedLibrary
           /\ selectedLocation' = selectedLocation ]_vars

\* C16: a bulk run passes every barcode of its list to processBarcode exactly
\* once and in list order, a chunk holds at most 200 barcodes, a chunk after
\* the first runs from the deferred callback only, the callback is pending
\* while barcodes remain, and after the last chunk, also of an empty list, the
\* bulk-loading flag is false
C16_ChunkedInOrder ==
    [][ (isBulkLoading /\ (bulkReader # << >> \/ bulkTimer))
        => LET start == IF bulkReader # << >> THEN 0 ELSE bulkIndex
               n     == Len(bulkBarcodes')
           IN  /\ bulkBarcodes' = IF bulkReader # << >>
                                  THEN bulkLines(bulkReader[1])
                                  ELSE bulkBarcodes
               /\ bulkCalls = SubSeq(bulkBarcodes', 1, start)
               /\ bulkIndex' - start <= 200
               /\ bulkIndex' = n \/ bulkIndex' - start = 200
               /\ bulkCalls' = SubSeq(bulkBarcodes', 1, bulkIndex')
               /\ bulkIndex' < n => (bulkTimer' /\ isBulkLoading')
               /\ bulkIndex' = n => (~bulkTimer' /\ ~isBulkLoading') ]_vars

\* a list of more than two chunks passed whole, the flag reset
C16_Witness ==
    /\ ~isBulkLoading
    /\ Len(bulkBarcodes) > 2 * 200
    /\ bulkIndex = Len(bulkBarcodes)
    /\ bulkCalls = bulkBarcodes

\* C17: a bulk chunk that passes a valid ISBN-13 to processBarcode leaves the
\* ISBN notification with its caller: the result shown after the chunk is the
\* isbn outcome
C17_BulkIsbnSurfaced ==
    [][ ( /\ isBulkLoading
          /\ bulkReader # << >> \/ bulkTimer
          /\ \E i \in 1..Len(bulkCalls') :
                /\ i > Len(bulkCalls)
                /\ ValidIsbn13(ClaimDigits(bulkCalls'[i])) )
        => lastResult'.outcome = "isbn" ]_vars

\* C18: the summary is the no-data result exactly when the ledger and the
\* catalog are both empty; a summary with counts is given only over a ledger
\* or a catalog that holds something
C18_NoDataExactlyWhenEmpty ==
    LET summary == summaryData(scannedItems, kohaData)
    IN  /\ summary.isNull <=> (Len(scannedItems) = 0 /\ Len(kohaData) = 0)
        /\ ~summary.isNull => summary.totalScanned + Len(kohaData) > 0

\* no data after scans were made: the page reloaded without a stored session
C18_Witness ==
    /\ summaryData(scannedItems, kohaData).isNull
    /\ clock > 0
    /\ permissionChoiceMade

\* the identifiers of the catalog in collection that no event of the ledger
\* without the duplicate warning was classified under
ClaimMissing ==
    { b \in { kohaData[i].barkod : i \in { j \in DOMAIN kohaData : kohaData[j].status = "0" } } :
        ~ \E i \in DOMAIN scannedItems :
              /\ ClassifiedIdentifier(scannedItems[i]) = b
              /\ "duplicate" \notin WarningIds(scannedItems[i]) }

\* C19: the missing count of the summary is the number of identifiers of the
\* catalog in collection with no event without the duplicate warning, and it
\* equals the number of rows of the report of the missing items
C19_MissingCountIsReport ==
    ~summaryData(scannedItems, kohaData).isNull
    => /\ summaryData(scannedItems, kohaData).notScannedCount = Cardinality(ClaimMissing)
       /\ summaryData(scannedItems, kohaData).notScannedCount
              = Len(missingItems(scannedItems, kohaData))

\* C20: deleting the one event of a timestamp evicts the identifier the event
\* was classified under from the seen set when no other event of the ledger
\* carries that identifier, and leaves the seen set as it is when another
\* event carries it
C20_DeleteEvictsLastInstance ==
    [][ \A ts \in 1..MaxClock :
          ( /\ Cardinality({ i \in DOMAIN scannedItems : scannedItems[i].timestamp = ts }) = 1
            /\ DeleteItem(ts) )
          => LET i  == CHOOSE k \in DOMAIN scannedItems : scannedItems[k].timestamp = ts
                 id == ClassifiedIdentifier(scannedItems[i])
             IN  IF \A j \in DOMAIN scannedItems \ { i } :
                        ClassifiedIdentifier(scannedItems[j]) # id
                 THEN id \notin processedBarcodes'
                 ELSE processedBarcodes' = processedBarcodes ]_vars

\* the barcodes of a list from the position first to the position end
\* classified one by one without the silent flag, each call made with the
\* closure of the render after the call before it; acc holds the ledger and
\* the seen set
RECURSIVE OneByOne(_, _, _, _)
OneByOne(barcodes, first, end, acc) ==
    IF first > end THEN acc
    ELSE IF first = end
    THEN LET r == processBarcode(barcodes[first], FALSE, acc.items, acc.seen,
                                 acc.items, 0)
         IN  [ items |-> r.items, seen |-> r.seen ]
    ELSE LET middle == (first + end) \div 2
         IN  CHOOSE r \in { OneByOne(barcodes, middle + 1, end, left) :
                            left \in { OneByOne(barcodes, first, middle, acc) } } : TRUE

\* the events of a ledger without their timestamps
Untimed(items) ==
    [ i \in DOMAIN items |->
        [ barcode  |-> items[i].barcode,
          warnings |-> items[i].warnings,
          isValid  |-> items[i].isValid,
          data     |-> items[i].data ] ]

\* C21: a chunk of a bulk run leaves the ledger, timestamps aside, and the
\* seen set as the same barcodes classified one by one in the same order
\* without the silent flag leave them
C21_BulkEqualsOneByOne ==
    [][ (isBulkLoading /\ (bulkReader # << >> \/ bulkTimer))
        => LET list  == IF bulkReader # << >>
                        THEN bulkLines(bulkReader[1]) ELSE bulkBarcodes
               start == IF bulkReader # << >> THEN 0 ELSE bulkIndex
               end   == IF start + 200 < Len(list) THEN start + 200 ELSE Len(list)
               r     == OneByOne(list, start + 1, end,
                                 [ items |-> scannedItems, seen |-> processedBarcodes ])
           IN  /\ bulkCalls' = SubSeq(list, 1, end)
               /\ Untimed(scannedItems') = Untimed(r.items)
               /\ processedBarcodes' = r.seen ]_vars

\* a bulk run over a ledger that held events has recorded a duplicate of one
\* of them and a first event of another barcode
C21_Witness ==
    /\ ~isBulkLoading
    /\ bulkCalls # << >>
    /\ bulkClosureItems # << >>
    /\ Len(scannedItems) >= Len(bulkClosureItems) + 2
    /\ \E i \in 1..(Len(scannedItems) - Len(bulkClosureItems)) :
          /\ "duplicate" \in WarningIds(scannedItems[i])
          /\ scannedItems[i].barcode \in BarcodesOf(bulkClosureItems)
    /\ \E i \in 1..(Len(scannedItems) - Len(bulkClosureItems)) :
          /\ "duplicate" \in WarningIds(scannedItems[i])
          /\ scannedItems[i].barcode \notin BarcodesOf(bulkClosureItems)
          /\ scannedItems[i].data # << >>

\* the normalized identifier of a text under a library: the first 12 of 13 or
\* more digits, 12 digits as they are, fewer digits auto-completed
ClaimIdentifier(barcode, library) ==
    LET digits == ClaimDigits(barcode)
    IN  IF Len(digits) >= 13 THEN SubSeq(digits, 1, 12)
        ELSE IF Len(digits) = 12 \/ digits = << >> THEN digits
        ELSE ClaimAutoCompleted(digits, library)

\* the identifiers a text processed by the worker under a library leaves in
\* the seen set according to C22: none if the message is dropped or the text
\* is an ISBN, otherwise the normalized identifier
ClaimWorkerAdded(barcode, library) ==
    IF library = << >> \/ (\A i \in DOMAIN barcode : barcode[i] = Blank)
       \/ ValidIsbn13(ClaimDigits(barcode))
    THEN {}
    ELSE { ClaimIdentifier(barcode, library) }

\* C22: a PROCESS_BARCODE or PROCESS_BULK message adds to the worker's
\* processedBarcodes exactly the normalized identifiers of the non-ISBN texts
\* it processes; an ISBN adds nothing
C22_WorkerSeenIsNormalized ==
    [][ /\ \A barcode \in WorkerBarcodes, library \in WorkerLibraries,
              location \in LocationCodes :
              WorkerProcessBarcode(barcode, library, location)
              => workerProcessedBarcodes'
                   = workerProcessedBarcodes \cup ClaimWorkerAdded(barcode, library)
        /\ \A barcodes \in WorkerBulkLists, library \in WorkerLibraries,
              location \in LocationCodes :
              WorkerProcessBulk(barcodes, library, location)
              => workerProcessedBarcodes'
                   = workerProcessedBarcodes
                       \cup UNION { ClaimWorkerAdded(barcodes[i], library) :
                                      i \in DOMAIN barcodes } ]_vars

\* a text that reaches the catalog checks: classified, its identifier not seen
\* before and not rejected by the structural check
ReachesCatalogChecks(barcode) ==
    /\ Classified(barcode)
    /\ ClaimIdentifier(barcode, selectedLibrary) \notin processedBarcodes
    /\ ~( /\ Len(ClaimIdentifier(barcode, selectedLibrary)) = 12
          /\ SubSeq(ClaimIdentifier(barcode, selectedLibrary), 1, 4)
               # ClaimPrefix(selectedLibrary) )

\* the warning of C23 if its condition holds, no warning otherwise
ClaimWarningIf(condition, id) ==
    IF condition THEN << [ id |-> id, libraryName |-> "" ] >> ELSE << >>

\* the warning list C23 states for a catalog record under a location scope
ClaimCatalogWarnings(row, location) ==
    ClaimWarningIf(location # "" /\ row.loc # location, "locationMismatch")
    \o ClaimWarningIf(row.loan # "0" /\ row.loan # "2", "notLoanable")
    \o ClaimWarningIf(row.status # "0", "notInCollection")
    \o ClaimWarningIf(row.onLoan = "1", "onLoan")

\* the catalog records of every combination of the four fields
ClaimRows ==
    { [ hasBarkod |-> TRUE, barkod |-> <<1,0,1,2,0,0,0,1,2,3,4,5>>, status |-> st,
        loan |-> ln, loc |-> lc, onLoan |-> ol ] :
        st \in { "0", "1" }, ln \in { "0", "1", "2" }, lc \in { "", "YB", "CB" },
        ol \in { "0", "1" } }

\* C23: a scan that passes the duplicate and structural checks and finds its
\* identifier in the catalog appends an event whose warnings are the applicable
\* ones of locationMismatch, notLoanable, notInCollection, onLoan in this
\* order, each present iff its own condition holds, valid iff there is none;
\* the worker's checks give the same list for every record
C23_CatalogWarningsInOrder ==
    [][ /\ \A barcode \in ClassifierBarcodes :
              ( /\ ReachesCatalogChecks(barcode)
                /\ ClaimIdentifier(barcode, selectedLibrary) \in DOMAIN kohaDataMap
                /\ Scan(barcode) )
              => LET row == kohaDataMap[ClaimIdentifier(barcode, selectedLibrary)]
                 IN  /\ Len(scannedItems') = Len(scannedItems) + 1
                     /\ scannedItems'[1].barcode = ClaimIdentifier(barcode, selectedLibrary)
                     /\ scannedItems'[1].warnings
                          = ClaimCatalogWarnings(row, selectedLocation)
                     /\ scannedItems'[1].isValid
                          = (ClaimCatalogWarnings(row, selectedLocation) = << >>)
                     /\ lastResult'.warnings = scannedItems'[1].warnings
        /\ \A row \in ClaimRows, location \in { "", "YB", "CB" } :
              workerCatalogWarnings(row, location) = ClaimCatalogWarnings(row, location)
      ]_vars

\* the newest event is of a record with three of the four warnings at once
C23_Witness ==
    /\ scannedItems # << >>
    /\ scannedItems[1].data # << >>
    /\ ~scannedItems[1].isValid
    /\ [ k \in DOMAIN scannedItems[1].warnings |-> scannedItems[1].warnings[k].id ]
         = << "locationMismatch", "notLoanable", "onLoan" >>
    /\ lastResult.outcome = "error"

\* str(int(code) + 1000) of the library codes of the directory
ClaimLibraryPrefix(code) ==
    IF code = <<1, 2>> THEN <<1, 0, 1, 2>>
    ELSE IF code = <<8, 9, 9, 9>> THEN <<9, 9, 9, 9>>
    ELSE IF code = <<9, 8, 9, 9, 0>> THEN <<9, 9, 9, 9, 0>>
    ELSE <<1, 0, 1, 2, 0>>

\* the normalized identifier of a text with 12 or more digits, or of a text
\* with fewer digits completed behind the prefix of the selected library
ClaimDirectoryIdentifier(barcode) ==
    LET digits == ClaimDigits(barcode)
        prefix == ClaimLibraryPrefix(selectedLibrary)
        room   == 12 - Len(prefix) - Len(digits)
    IN  IF Len(digits) >= 12 THEN SubSeq(digits, 1, 12)
        ELSE IF room > 0 THEN prefix \o [ i \in 1..room |-> 0 ] \o digits
        ELSE prefix \o digits

\* s begins with p
ClaimStartsWith(s, p) == Len(s) >= Len(p) /\ SubSeq(s, 1, Len(p)) = p

\* the positions of the directory whose prefix the identifier starts with
ClaimMatches(id) ==
    { i \in DOMAIN libraryOptions(customLibraries) :
        ClaimStartsWith(id, ClaimLibraryPrefix(libraryOptions(customLibraries)[i])) }

\* the one warning C24 states for a structurally rejected identifier
ClaimStructuralWarning(id) ==
    IF ClaimMatches(id) = {}
    THEN [ id |-> "invalidStructure", libraryName |-> "" ]
    ELSE [ id |-> "wrongLibrary",
           libraryName |-> LibraryName(libraryOptions(customLibraries)[
                               CHOOSE i \in ClaimMatches(id) :
                                   \A j \in ClaimMatches(id) : i <= j ]) ]

\* C24 as stated: every classified text whose 12-character identifier does not
\* start with the expected prefix gets the one warning wrongLibrary with the
\* name of the first matching library of the directory, or invalidStructure if
\* none matches, and every identifier that starts with the prefix of a
\* registered library other than the selected one gets wrongLibrary
C24_StructuralWarningAlways ==
    [][ \A barcode \in DirectoryBarcodes :
          ( Classified(barcode) /\ Scan(barcode) )
          => LET id == ClaimDirectoryIdentifier(barcode)
             IN  /\ ( /\ Len(id) = 12
                      /\ ~ClaimStartsWith(id, ClaimLibraryPrefix(selectedLibrary)) )
                    => scannedItems'[1].warnings = << ClaimStructuralWarning(id) >>
                 /\ ( \E i \in ClaimMatches(id) :
                          libraryOptions(customLibraries)[i] # selectedLibrary )
                    => [ k \in DOMAIN scannedItems'[1].warnings |->
                             scannedItems'[1].warnings[k].id ] = << "wrongLibrary" >>
      ]_vars

\* C24 amended: a classified text whose 12-character identifier is not in the
\* seen set and does not start with the expected prefix appends an invalid
\* event with the one warning wrongLibrary carrying the name of the first
\* library of the directory whose prefix the identifier starts with, and
\* invalidStructure iff no entry of the directory matches
C24_StructuralWarningOfUnseen ==
    [][ \A barcode \in DirectoryBarcodes :
          ( /\ Classified(barcode)
            /\ ClaimDirectoryIdentifier(barcode) \notin processedBarcodes
            /\ Len(ClaimDirectoryIdentifier(barcode)) = 12
            /\ ~ClaimStartsWith(ClaimDirectoryIdentifier(barcode),
                                ClaimLibraryPrefix(selectedLibrary))
            /\ Scan(barcode) )
          => /\ Len(scannedItems') = Len(scannedItems) + 1
             /\ scannedItems'[1].warnings
                  = << ClaimStructuralWarning(ClaimDirectoryIdentifier(barcode)) >>
             /\ ~scannedItems'[1].isValid
             /\ lastResult'.outcome = "error"
             /\ lastResult'.warnings = scannedItems'[1].warnings
      ]_vars

\* two libraries of the directory match the newest event's identifier and the
\* event names the first; an older event matched no library
C24_Witness ==
    /\ selectedLibrary = <<1, 2>>
    /\ { <<8, 9, 9, 9>>, <<9, 8, 9, 9, 0>> } \subseteq customLibraries
    /\ Len(scannedItems) = 2
    /\ scannedItems[1].barcode = <<9,9,9,9,0,0,0,1,2,3,4,5>>
    /\ scannedItems[1].warnings
         = << [ id |-> "wrongLibrary", libraryName |-> "CUSTOM LIBRARY 8999" ] >>
    /\ scannedItems[2].warnings = << [ id |-> "invalidStructure", libraryName |-> "" ] >>

\* C25: a scan that passes the duplicate and structural checks and does not
\* find its identifier in the catalog appends an invalid event with exactly
\* one warning, autoCompletedNotFound iff the text has 1 to 11 digits and
\* deleted otherwise; a text without any digit is classified as deleted
C25_NotFoundWarning ==
    [][ \A barcode \in ClassifierBarcodes :
          ( /\ ReachesCatalogChecks(barcode)
            /\ ClaimIdentifier(barcode, selectedLibrary) \notin DOMAIN kohaDataMap
            /\ Scan(barcode) )
          => /\ Len(scannedItems') = Len(scannedItems) + 1
             /\ scannedItems'[1].barcode = ClaimIdentifier(barcode, selectedLibrary)
             /\ scannedItems'[1].warnings
                  = << [ id |-> IF Len(ClaimDigits(barcode)) \in 1..11
                                THEN "autoCompletedNotFound" ELSE "deleted",
                         libraryName |-> "" ] >>
             /\ ~scannedItems'[1].isValid
             /\ scannedItems'[1].data = << >>
             /\ lastResult'.outcome = "error"
             /\ lastResult'.warnings = scannedItems'[1].warnings
      ]_vars

\* the newest event is of a text without digits, classified as deleted under
\* the empty identifier, after an auto-completed text that was not found
C25_Witness ==
    /\ Len(scannedItems) = 2
    /\ scannedItems[1].barcode = << >>
    /\ scannedItems[1].warnings = << [ id |-> "deleted", libraryName |-> "" ] >>
    /\ scannedItems[2].warnings = << [ id |-> "autoCompletedNotFound", libraryName |-> "" ] >>
    /\ << >> \in processedBarcodes

\* the newest entry of the scanner's history is a call of onScan that
\* returned the isbn outcome
LastCallWasIsbn ==
    scannerLog # << >> /\ scannerLog[Len(scannerLog)].outcome = "isbn"

Forwards ==
    /\ Len(scannerLog') = Len(scannerLog) + 1
    /\ scannerLog'[Len(scannerLog')].outcome \notin { "cooldownFired", "cameraOpened" }

\* the entries of the history that are calls of onScan with a non-ISBN outcome
IsThrottledCall(entry) == entry.outcome \notin { "cooldownFired", "cameraOpened", "isbn" }

\* the history without the mounts of the scanner
CallsAndCooldowns ==
    LET NotMount(entry) == entry.outcome # "cameraOpened" IN SelectSeq(scannerLog, NotMount)

\* the position of the newest mount of the scanner in the history, 0 if none
LastMount ==
    LET mounts == { i \in DOMAIN scannerLog : scannerLog[i].outcome = "cameraOpened" }
    IN  IF mounts = {} THEN 0 ELSE CHOOSE i \in mounts : \A j \in mounts : j <= i

\* C29 as stated: a text is passed to onScan only while the scanner is not
\* paused and no cooldown is pending; after a call with a non-ISBN outcome no
\* text is passed until the cooldown timer has fired; a text passed once with
\* a non-ISBN outcome is not passed again while the camera stays open
C29_ForwardOnlyAfterCooldownFired ==
    [][ Forwards
        => /\ ~warningModalIsOpen
           /\ ~throttleTimeout
           /\ ( CallsAndCooldowns # << >>
                => ~IsThrottledCall(CallsAndCooldowns[Len(CallsAndCooldowns)]) )
           /\ \A i \in DOMAIN scannerLog :
                 ( i > LastMount /\ IsThrottledCall(scannerLog[i]) )
                 => scannerLog[i].text # scannerLog'[Len(scannerLog')].text
      ]_vars

\* C29 amended: while the camera stays open, after a call with a non-ISBN
\* outcome no text is passed to onScan until the cooldown timer has fired
C29_ForwardOnlyWhenIdle ==
    [][ Forwards
        => /\ isCameraOpen
           /\ ~warningModalIsOpen
           /\ ~throttleTimeout
           /\ scannerLog # << >>
           /\ ~IsThrottledCall(scannerLog[Len(scannerLog)])
           /\ \A i \in DOMAIN scannerLog :
                 ( i > LastMount /\ IsThrottledCall(scannerLog[i]) )
                 => scannerLog[i].text # scannerLog'[Len(scannerLog')].text
      ]_vars

\* after a call with the success outcome and the firing of its cooldown the
\* scanner, still open, passed another text to onScan
C29_Witness ==
    /\ isCameraOpen
    /\ Len(scannerLog) >= 4
    /\ scannerLog[Len(scannerLog) - 2].outcome = "success"
    /\ scannerLog[Len(scannerLog) - 1].outcome = "cooldownFired"
    /\ scannerLog[Len(scannerLog)].outcome \in { "success", "isbn" }
    /\ scannerLog[Len(scannerLog) - 2].text \in scannedCodesThisSession

\* a barcode of 12 or more digits is in the input with its debounce pending
TypedAndPending ==
    /\ Len(barcodeInput) >= 12
    /\ manualInputDebounce = << barcodeInput >>

\* C30: from the state in which a barcode of 12 or more digits has been typed
\* and its debounce timer is pending, the first of the submit and the firing
\* of the timer passes the barcode to processBarcode once, clears the input
\* and leaves no timer pending; with the input cleared the timer cannot fire
\* and a submit classifies nothing; a timer is pending only for the text that
\* is in the input
C30_ManualEntryOnce ==
    [][ /\ ( manualInputDebounce # << >> => TypedAndPending )
        /\ ( TypedAndPending /\ (DebounceFired \/ SubmitManualEntry) )
           => /\ manualCalls' = Append(manualCalls, barcodeInput)
              /\ barcodeInput' = << >>
              /\ manualInputDebounce' = << >>
        /\ ( barcodeInput = << >> /\ SubmitManualEntry )
           => manualCalls' = manualCalls
        /\ ( barcodeInput = << >> => ~DebounceFired )
        /\ ( \E text \in InputTexts : TypeBarcode(text) ) => manualCalls' = manualCalls
      ]_vars

\* two barcodes of 12 or more digits were typed and each was classified once;
\* the input is empty and no timer is pending
C30_Witness ==
    /\ Len(manualCalls) = 2
    /\ Len(manualCalls[1]) >= 12
    /\ Len(manualCalls[2]) >= 12
    /\ Len(scannedItems) = 2
    /\ barcodeInput = << >>
    /\ manualInputDebounce = << >>
    /\ lastResult.outcome = "error"

\* the distinct identifiers of the catalog records in collection
ActiveIdentifiers == { kohaData[i].barkod : i \in { j \in DOMAIN kohaData : kohaData[j].status = "0" } }

\* C27: whenever summaryData is computed, valid + invalid + notScannedCount is
\* the number of distinct identifiers of the catalog records with status 0
C27_HeadlineFiguresPartition ==
    ~summaryData(scannedItems, kohaData).isNull
    => summaryData(scannedItems, kohaData).valid
       + summaryData(scannedItems, kohaData).invalid
       + summaryData(scannedItems, kohaData).notScannedCount
         = Cardinality(ActiveIdentifiers)

\* C28: the ledger holds at most one event without the duplicate warning per
\* barcode value
C28_OneNonDuplicatePerBarcode ==
    \A i, j \in DOMAIN scannedItems :
        ( /\ i # j
          /\ scannedItems[i].barcode = scannedItems[j].barcode
          /\ "duplicate" \notin { scannedItems[i].warnings[k].id : k \in DOMAIN scannedItems[i].warnings } )
        => "duplicate" \in { scannedItems[j].warnings[k].id : k \in DOMAIN scannedItems[j].warnings }

====
